---- MODULE Spec2Model ----
(***************************************************************************)
(* Xen event channels (drivers/xen/events.c): the irq <-> event channel    *)
(* mapping tables, the binding constructors, the pirq chip, suspend/resume *)
(* and the two-level upcall scanner, as a state machine.                   *)
(*                                                                         *)
(* Every operation of events.c is a pure operator over a record `s` that   *)
(* holds the driver's tables (the fields carry the names of the C          *)
(* variables).  One action per public operation applies the operator to    *)
(* the current state; the answers of the hypervisor and of the IRQ core    *)
(* are inputs the action draws with \E.  BUG()/panic() set `fatal`, after  *)
(* which nothing runs any more.                                            *)
(***************************************************************************)
EXTENDS Integers, Sequences, FiniteSets, TLC

(* ------------------------------------------------------------------ *)
(* Sizes.  The kernel's are 64 bits per word, 4096 ports, some hundred *)
(* irqs; the model scales them down.                                   *)
(* ------------------------------------------------------------------ *)
NR_CPUS == 2
BITS_PER_LONG == 2
NR_VIRQS == 1
XEN_NR_IPIS == 1
nr_irqs == 5
NR_HW_IRQS == 1
\* The number of operations a run performs.
MaxOps == 4

\* The selector word has one bit per word of the port bitmap.
NR_EVENT_CHANNELS == BITS_PER_LONG * BITS_PER_LONG

PIRQ_SHAREABLE == 2

CPUs == 0 .. (NR_CPUS - 1)
Ports == 0 .. (NR_EVENT_CHANNELS - 1)
Words == 0 .. (BITS_PER_LONG - 1)
Bits == 0 .. (BITS_PER_LONG - 1)
Irqs == 0 .. (nr_irqs - 1)
Virqs == 0 .. (NR_VIRQS - 1)
Ipis == 0 .. (XEN_NR_IPIS - 1)
\* The GSIs asked for: a legacy one and one in the dynamic range.
Gsis == {0, nr_irqs - 1}

IrqTypes == {"IRQT_UNBOUND", "IRQT_PIRQ", "IRQT_VIRQ", "IRQT_IPI", "IRQT_EVTCHN"}

\* Error values of this file; the hypervisor's and the IRQ core's error
\* answers are inputs.
ENOSPC == 28
ENOENT == 2
HvErrors == {-22}
IrqCoreErrors == {-16}

VARIABLES
  irq_info,               \* irq -> struct irq_info
  evtchn_to_irq,          \* port -> irq or -1
  cpu_evtchn_mask,        \* cpu -> set of ports (cpu_evtchn_mask_p[cpu].bits)
  virq_to_irq,            \* cpu -> virq -> irq or -1 (per-cpu)
  ipi_to_irq,             \* cpu -> ipi -> irq or -1 (per-cpu)
  irq_chip,               \* irq -> desc->chip ("NULL": no descriptor)
  irq_action,             \* irq -> desc->action ("NULL", "plain", "no_suspend")
  evtchn_pending,         \* shared_info.evtchn_pending, as a set of ports
  evtchn_mask,            \* shared_info.evtchn_mask, as a set of ports
  evtchn_pending_sel,     \* cpu -> vcpu_info.evtchn_pending_sel, set of words
  evtchn_upcall_pending,  \* cpu -> vcpu_info.evtchn_upcall_pending
  pirq_needs_eoi_bits,    \* set of gsis
  pirq_eoi_does_unmask,   \* set once by xen_init_IRQ
  xen_initial_domain,     \* the guest is the privileged domain
  hv_ports,               \* ports the hypervisor has open for the guest
  fatal,                  \* BUG() or panic() was reached
  hc,                     \* hypercalls issued by the last operation
  last,                   \* the last operation: name, arguments, result
  nops,                   \* operations performed so far
  xed_nesting_count,      \* cpu -> per-cpu xed_nesting_count
  current_word_idx,       \* cpu -> per-cpu current_word_idx
  current_bit_idx,        \* cpu -> per-cpu current_bit_idx
  upcall,                 \* the running __xen_evtchn_do_upcall: pc and locals
  entry,                  \* the bitmaps and the cursor as the pass found them
  dispatched,             \* the ports the pass has processed, in order
  irq_mapping_update_lock,\* the cpu that holds the spinlock, or -1
  writer,                 \* the running call of a writer: its statements, pc
  reader                  \* a lookup that takes no lock: pc and what it read

tables == <<irq_info, evtchn_to_irq, cpu_evtchn_mask, virq_to_irq, ipi_to_irq>>

vars == <<irq_info, evtchn_to_irq, cpu_evtchn_mask, virq_to_irq, ipi_to_irq,
          irq_chip, irq_action, evtchn_pending, evtchn_mask,
          evtchn_pending_sel, evtchn_upcall_pending, pirq_needs_eoi_bits,
          pirq_eoi_does_unmask, xen_initial_domain, hv_ports, fatal, hc, last,
          nops, xed_nesting_count, current_word_idx, current_bit_idx, upcall,
          entry, dispatched, irq_mapping_update_lock, writer, reader>>

\* The state of the upcall.
scanvars == <<xed_nesting_count, current_word_idx, current_bit_idx, upcall,
              entry, dispatched>>

\* The lock, and the calls that are followed statement by statement.
stepvars == <<irq_mapping_update_lock, writer, reader>>

\* The current state as the record the operators work on.
Cur ==
  [irq_info |-> irq_info, evtchn_to_irq |-> evtchn_to_irq,
   cpu_evtchn_mask |-> cpu_evtchn_mask, virq_to_irq |-> virq_to_irq,
   ipi_to_irq |-> ipi_to_irq, irq_chip |-> irq_chip, irq_action |-> irq_action,
   evtchn_pending |-> evtchn_pending, evtchn_mask |-> evtchn_mask,
   evtchn_pending_sel |-> evtchn_pending_sel,
   evtchn_upcall_pending |-> evtchn_upcall_pending,
   pirq_needs_eoi_bits |-> pirq_needs_eoi_bits,
   pirq_eoi_does_unmask |-> pirq_eoi_does_unmask,
   xen_initial_domain |-> xen_initial_domain,
   hv_ports |-> hv_ports, fatal |-> FALSE, hc |-> <<>>, ret |-> 0]

\* A hypercall is issued: it is appended to the operation's log.
Hypercall(s, call) == [s EXCEPT !.hc = Append(@, call)]

\* BUG() and panic(): the guest stops.
BUG(s) == [s EXCEPT !.fatal = TRUE]

Return(s, v) == [s EXCEPT !.ret = v]

(* ------------------------------------------------------------------ *)
(* Constructors and accessors of the packed irq information.           *)
(* ------------------------------------------------------------------ *)
mk_unbound_info ==
  [type |-> "IRQT_UNBOUND", evtchn |-> 0, cpu |-> 0,
   virq |-> 0, ipi |-> 0, gsi |-> 0, vector |-> 0, flags |-> 0]

mk_evtchn_info(evtchn) ==
  [mk_unbound_info EXCEPT !.type = "IRQT_EVTCHN", !.evtchn = evtchn]

mk_ipi_info(evtchn, ipi) ==
  [mk_unbound_info EXCEPT !.type = "IRQT_IPI", !.evtchn = evtchn, !.ipi = ipi]

mk_virq_info(evtchn, virq) ==
  [mk_unbound_info EXCEPT !.type = "IRQT_VIRQ", !.evtchn = evtchn, !.virq = virq]

mk_pirq_info(evtchn, gsi, vector) ==
  [mk_unbound_info EXCEPT !.type = "IRQT_PIRQ", !.evtchn = evtchn,
                          !.gsi = gsi, !.vector = vector]

VALID_EVTCHN(chn) == chn # 0

\* No writer is being followed; no lookup is under way.
NoWriter == [op |-> "none", cpu |-> 0, pc |-> 1, stmts |-> << >>]

NoReader == [pc |-> "idle", cpu |-> 0, port |-> 0, irq |-> -1,
             info |-> mk_unbound_info]

evtchn_from_irq(s, irq) == s.irq_info[irq].evtchn

type_from_irq(s, irq) == s.irq_info[irq].type

cpu_from_irq(s, irq) == s.irq_info[irq].cpu

cpu_from_evtchn(s, evtchn) ==
  LET irq == s.evtchn_to_irq[evtchn]
  IN  IF irq # -1 THEN cpu_from_irq(s, irq) ELSE 0

pirq_needs_eoi(s, irq) == s.irq_info[irq].gsi \in s.pirq_needs_eoi_bits

\* A faulty active_evtchns: evtchn_mask is not looked at.
active_evtchns_any_mask(s, cpu, idx) ==
  {p \in Ports : /\ p \div BITS_PER_LONG = idx
                 /\ p \in s.evtchn_pending
                 /\ p \in s.cpu_evtchn_mask[cpu]}

\* active_evtchns(cpu, sh, idx), as the set of ports of word idx.
active_evtchns(s, cpu, idx) ==
  {p \in Ports : /\ p \div BITS_PER_LONG = idx
                 /\ p \in s.evtchn_pending
                 /\ p \in s.cpu_evtchn_mask[cpu]
                 /\ p \notin s.evtchn_mask}

\* A faulty bind_evtchn_to_cpu: the clear_bit on the old cpu's mask is missing.
bind_evtchn_to_cpu_no_clear(s, chn, cpu) ==
  LET irq == s.evtchn_to_irq[chn]
  IN  IF irq = -1
      THEN BUG(s)
      ELSE [s EXCEPT !.cpu_evtchn_mask[cpu] = @ \cup {chn},
                     !.irq_info[irq].cpu = cpu]

\* clear_bit on the mask of the irq's current cpu, then set_bit on the new one.
bind_evtchn_to_cpu(s, chn, cpu) ==
  LET irq == s.evtchn_to_irq[chn]
  IN  IF irq = -1
      THEN BUG(s)
      ELSE LET old == cpu_from_irq(s, irq)
               cleared == [s.cpu_evtchn_mask EXCEPT ![old] = @ \ {chn}]
               moved == [cleared EXCEPT ![cpu] = @ \cup {chn}]
           IN  [s EXCEPT !.cpu_evtchn_mask = moved, !.irq_info[irq].cpu = cpu]

\* A faulty init_evtchn_cpu_bindings: CPU 0's mask is cleared like the others.
init_evtchn_cpu_bindings_none(s) ==
  [s EXCEPT !.cpu_evtchn_mask = [c \in CPUs |-> {}]]

\* Every port notifies CPU 0: its mask is all ones, the others are empty.
init_evtchn_cpu_bindings(s) ==
  [s EXCEPT !.cpu_evtchn_mask = [c \in CPUs |-> IF c = 0 THEN Ports ELSE {}]]

mask_evtchn(s, port) == [s EXCEPT !.evtchn_mask = @ \cup {port}]

clear_evtchn(s, port) == [s EXCEPT !.evtchn_pending = @ \ {port}]

set_evtchn(s, port) == [s EXCEPT !.evtchn_pending = @ \cup {port}]

mask_irq(s, irq) ==
  LET evtchn == evtchn_from_irq(s, irq)
  IN  IF VALID_EVTCHN(evtchn) THEN mask_evtchn(s, evtchn) ELSE s

\* The hypervisor's side of EVTCHNOP_unmask: the mask bit is cleared and, if
\* the port is pending, the selector bit and the upcall flag of the vcpu the
\* port is bound to are set.
HvUnmask(s, port) ==
  LET cpu == cpu_from_evtchn(s, port)
      w == port \div BITS_PER_LONG
  IN  IF port \notin s.hv_ports
      THEN s
      ELSE IF port \in s.evtchn_mask /\ port \in s.evtchn_pending
           THEN [s EXCEPT !.evtchn_mask = @ \ {port},
                          !.evtchn_pending_sel[cpu] = @ \cup {w},
                          !.evtchn_upcall_pending[cpu] =
                              @ \/ (w \notin s.evtchn_pending_sel[cpu])]
           ELSE [s EXCEPT !.evtchn_mask = @ \ {port}]

\* The hypervisor raises an event on the port: the pending bit is set and, if
\* it was clear and the port is not masked, the selector bit of the vcpu the
\* port is bound to; the upcall flag is set when the selector bit was clear.
HvSetPending(s, port) ==
  LET cpu == cpu_from_evtchn(s, port)
      w == port \div BITS_PER_LONG
      s1 == set_evtchn(s, port)
  IN  IF port \in s.evtchn_pending \/ port \in s.evtchn_mask
      THEN s1
      ELSE [s1 EXCEPT !.evtchn_pending_sel[cpu] = @ \cup {w},
                      !.evtchn_upcall_pending[cpu] =
                          @ \/ (w \notin s.evtchn_pending_sel[cpu])]

\* A faulty unmask_evtchn: on the port's own cpu the mask bit is cleared and
\* the pending bit is not looked at.
unmask_evtchn_no_edge(s, port, cpu) ==
  IF cpu # cpu_from_evtchn(s, port)
  THEN HvUnmask(Hypercall(s, <<"EVTCHNOP_unmask", port>>), port)
  ELSE [s EXCEPT !.evtchn_mask = @ \ {port}]

\* A faulty unmask_evtchn: on the port's own cpu the selector bit of a
\* pending port is set and the upcall flag is left alone.
unmask_evtchn_sel_only(s, port, cpu) ==
  LET w == port \div BITS_PER_LONG
  IN  IF cpu # cpu_from_evtchn(s, port)
      THEN HvUnmask(Hypercall(s, <<"EVTCHNOP_unmask", port>>), port)
      ELSE LET s1 == [s EXCEPT !.evtchn_mask = @ \ {port}]
           IN  IF port \in s1.evtchn_pending
               THEN [s1 EXCEPT !.evtchn_pending_sel[cpu] = @ \cup {w}]
               ELSE s1

\* unmask_evtchn(port) running on `cpu` (get_cpu()).
unmask_evtchn(s, port, cpu) ==
  LET w == port \div BITS_PER_LONG
  IN  IF cpu # cpu_from_evtchn(s, port)
      THEN HvUnmask(Hypercall(s, <<"EVTCHNOP_unmask", port>>), port)
      ELSE LET s1 == [s EXCEPT !.evtchn_mask = @ \ {port}]
           IN  IF port \in s1.evtchn_pending
               THEN [s1 EXCEPT !.evtchn_pending_sel[cpu] = @ \cup {w},
                               !.evtchn_upcall_pending[cpu] =
                                   @ \/ (w \notin s1.evtchn_pending_sel[cpu])]
               ELSE s1

unmask_irq(s, irq, cpu) ==
  LET evtchn == evtchn_from_irq(s, irq)
  IN  IF VALID_EVTCHN(evtchn) THEN unmask_evtchn(s, evtchn, cpu) ELSE s

\* A faulty retrigger_irq: the port is unmasked whether or not it was masked.
retrigger_irq_unmasks(s, irq, cpu) ==
  LET evtchn == evtchn_from_irq(s, irq)
  IN  IF VALID_EVTCHN(evtchn)
      THEN [unmask_evtchn(set_evtchn(mask_evtchn(s, evtchn), evtchn), evtchn,
                          cpu) EXCEPT !.ret = 1]
      ELSE [s EXCEPT !.ret = 0]

\* retrigger_irq(irq) running on `cpu`.
retrigger_irq(s, irq, cpu) ==
  LET evtchn == evtchn_from_irq(s, irq)
      masked == evtchn \in s.evtchn_mask
      s1 == set_evtchn(mask_evtchn(s, evtchn), evtchn)
  IN  IF VALID_EVTCHN(evtchn)
      THEN [(IF ~masked THEN unmask_evtchn(s1, evtchn, cpu) ELSE s1)
              EXCEPT !.ret = 1]
      ELSE [s EXCEPT !.ret = 0]

get_nr_hw_irqs == NR_HW_IRQS

\* dynamic_irq_init / dynamic_irq_init_keep_chip_data: a fresh descriptor.
dynamic_irq_init(s, irq) ==
  [s EXCEPT !.irq_chip[irq] = "no_irq_chip", !.irq_action[irq] = "NULL"]

\* dynamic_irq_cleanup: the descriptor goes back to no_irq_chip, unless a
\* handler is still registered (the IRQ core then only warns).
dynamic_irq_cleanup(s, irq) ==
  IF s.irq_action[irq] # "NULL"
  THEN s
  ELSE [s EXCEPT !.irq_chip[irq] = "no_irq_chip"]

set_irq_chip(s, irq, chip) == [s EXCEPT !.irq_chip[irq] = chip]

\* The loop of find_unbound_irq: for (irq = nr_irqs-1; irq > start; irq--).
RECURSIVE find_unbound_irq_loop(_, _, _)
find_unbound_irq_loop(s, irq, start) ==
  IF ~(irq > start) THEN irq
  ELSE IF s.irq_chip[irq] = "NULL" THEN irq
  ELSE IF s.irq_chip[irq] = "no_irq_chip" THEN irq
  ELSE IF s.irq_chip[irq] # "xen_dynamic_chip"
       THEN find_unbound_irq_loop(s, irq - 1, start)
  ELSE IF s.irq_info[irq].type = "IRQT_UNBOUND" THEN irq
  ELSE find_unbound_irq_loop(s, irq - 1, start)

\* A faulty find_unbound_irq: when the loop runs down to `start` it hands
\* `start` out instead of panicking.
find_unbound_irq_fallback(s) ==
  LET start == get_nr_hw_irqs
      irq == find_unbound_irq_loop(s, nr_irqs - 1, start)
  IN  IF start = nr_irqs
      THEN BUG(Return(s, -1))
      ELSE Return(dynamic_irq_init(s, irq), irq)

\* find_unbound_irq: the irq is left in s.ret; panic when there is none.
find_unbound_irq(s) ==
  LET start == get_nr_hw_irqs
      irq == find_unbound_irq_loop(s, nr_irqs - 1, start)
  IN  IF start = nr_irqs \/ irq = start
      THEN BUG(Return(s, -1))
      ELSE Return(dynamic_irq_init(s, irq), irq)

identity_mapped_irq(irq) == irq < get_nr_hw_irqs

(* ------------------------------------------------------------------ *)
(* The hypervisor's port space, as far as the driver depends on it:    *)
(* a bind hands out a port that is not open, close frees it.           *)
(* ------------------------------------------------------------------ *)
FreePorts(s) == (Ports \ {0}) \ s.hv_ports

HvOpen(s, port) == [s EXCEPT !.hv_ports = @ \cup {port}]

HvClose(s, port) == [s EXCEPT !.hv_ports = @ \ {port}]

(* ------------------------------------------------------------------ *)
(* The pirq chip.                                                      *)
(* ------------------------------------------------------------------ *)
\* A faulty pirq_eoi: an irq that needs an eoi is unmasked here when the
\* hypervisor unmasks at the eoi, and not when it does not.
pirq_eoi_unmasks_twice(s, irq, cpu) ==
  LET info == s.irq_info[irq]
      need_eoi == pirq_needs_eoi(s, irq)
      s1 == IF ~need_eoi \/ s.pirq_eoi_does_unmask
            THEN unmask_evtchn(s, info.evtchn, cpu)
            ELSE s
  IN  IF need_eoi
      THEN Hypercall(s1, <<"PHYSDEVOP_eoi", info.gsi>>)
      ELSE s1

\* pirq_eoi(irq) running on `cpu`.
pirq_eoi(s, irq, cpu) ==
  LET info == s.irq_info[irq]
      need_eoi == pirq_needs_eoi(s, irq)
      s1 == IF ~need_eoi \/ ~s.pirq_eoi_does_unmask
            THEN unmask_evtchn(s, info.evtchn, cpu)
            ELSE s
  IN  IF need_eoi
      THEN Hypercall(s1, <<"PHYSDEVOP_eoi", info.gsi>>)
      ELSE s1

\* pirq_query_unmask(irq); `needs` is the XENIRQSTAT_needs_eoi flag of the
\* hypervisor's answer (FALSE also when the query fails).
pirq_query_unmask(s, irq, needs) ==
  LET gsi == s.irq_info[irq].gsi
  IN  IF s.pirq_eoi_does_unmask
      THEN s
      ELSE LET s1 == Hypercall(s, <<"PHYSDEVOP_irq_status_query", gsi>>)
           IN  [s1 EXCEPT !.pirq_needs_eoi_bits =
                   IF needs THEN @ \cup {gsi} ELSE @ \ {gsi}]

\* A faulty startup_pirq: pirq_query_unmask is called before the answer of
\* EVTCHNOP_bind_pirq is looked at.
startup_pirq_query_first(s, irq, hv, needs, cpu) ==
  LET info == s.irq_info[irq]
      evtchn == evtchn_from_irq(s, irq)
  IN  IF info.type # "IRQT_PIRQ" THEN BUG(s)
      ELSE IF VALID_EVTCHN(evtchn) THEN Return(pirq_eoi(s, irq, cpu), 0)
      ELSE LET s1 == pirq_query_unmask(
                       Hypercall(s, <<"EVTCHNOP_bind_pirq", info.gsi,
                                      info.flags>>), irq, needs)
           IN  IF hv < 0 THEN Return(s1, 0)
               ELSE LET s3 == [HvOpen(s1, hv) EXCEPT !.evtchn_to_irq[hv] = irq]
                        s4 == bind_evtchn_to_cpu(s3, hv, 0)
                        s5 == [s4 EXCEPT !.irq_info[irq].evtchn = hv]
                    IN  Return(pirq_eoi(s5, irq, cpu), 0)

\* startup_pirq(irq) on `cpu`; hv is the port EVTCHNOP_bind_pirq returns, or
\* its error.
startup_pirq(s, irq, hv, needs, cpu) ==
  LET info == s.irq_info[irq]
      evtchn == evtchn_from_irq(s, irq)
  IN  IF info.type # "IRQT_PIRQ" THEN BUG(s)
      ELSE IF VALID_EVTCHN(evtchn) THEN Return(pirq_eoi(s, irq, cpu), 0)
      ELSE LET s1 == Hypercall(s, <<"EVTCHNOP_bind_pirq", info.gsi,
                                    info.flags>>)
           IN  IF hv < 0 THEN Return(s1, 0)
               ELSE LET s2 == pirq_query_unmask(HvOpen(s1, hv), irq, needs)
                        s3 == [s2 EXCEPT !.evtchn_to_irq[hv] = irq]
                        s4 == bind_evtchn_to_cpu(s3, hv, 0)
                        s5 == [s4 EXCEPT !.irq_info[irq].evtchn = hv]
                    IN  Return(pirq_eoi(s5, irq, cpu), 0)

\* EVTCHNOP_close fails exactly when the port is not open.
shutdown_pirq(s, irq) ==
  LET info == s.irq_info[irq]
      evtchn == evtchn_from_irq(s, irq)
  IN  IF info.type # "IRQT_PIRQ" THEN BUG(s)
      ELSE IF ~VALID_EVTCHN(evtchn) THEN s
      ELSE LET s1 == Hypercall(mask_evtchn(s, evtchn),
                               <<"EVTCHNOP_close", evtchn>>)
           IN  IF evtchn \notin s1.hv_ports THEN BUG(s1)
               ELSE LET s2 == bind_evtchn_to_cpu(HvClose(s1, evtchn), evtchn, 0)
                    IN  IF s2.fatal THEN s2
                        ELSE [s2 EXCEPT !.evtchn_to_irq[evtchn] = -1,
                                        !.irq_info[irq].evtchn = 0]

\* find_irq_by_gsi: the lowest irq of type PIRQ with this gsi, or -1.
find_irq_by_gsi(s, gsi) ==
  LET found == {irq \in Irqs : /\ s.irq_info[irq].type = "IRQT_PIRQ"
                               /\ s.irq_info[irq].gsi = gsi}
  IN  IF found = {} THEN -1
      ELSE CHOOSE irq \in found : \A other \in found : irq <= other

\* A faulty xen_allocate_pirq: the failure of PHYSDEVOP_alloc_irq_vector does
\* not leave before irq_info is written.
xen_allocate_pirq_no_goto(s, gsi, shareable, hv) ==
  LET found == find_irq_by_gsi(s, gsi)
  IN  IF found # -1 THEN Return(s, found)
      ELSE
        LET s1 == IF identity_mapped_irq(gsi) \/ ~s.xen_initial_domain
                  THEN Return(dynamic_irq_init(s, gsi), gsi)
                  ELSE find_unbound_irq(s)
        IN  IF s1.fatal THEN s1
            ELSE
              LET irq == s1.ret
                  s2 == set_irq_chip(s1, irq, "xen_pirq_chip")
                  s3 == IF s.xen_initial_domain
                        THEN Hypercall(s2, <<"PHYSDEVOP_alloc_irq_vector", gsi>>)
                        ELSE s2
                  failed == s.xen_initial_domain /\ hv < 0
                  s4 == IF failed THEN dynamic_irq_cleanup(s3, irq) ELSE s3
                  made == [mk_pirq_info(0, gsi, 0) EXCEPT
                             !.vector = IF s.xen_initial_domain /\ ~failed
                                        THEN hv ELSE 0,
                             !.flags = IF shareable THEN PIRQ_SHAREABLE ELSE 0]
              IN  Return([s4 EXCEPT !.irq_info[irq] = made],
                         IF failed THEN -ENOSPC ELSE irq)

\* xen_allocate_pirq(gsi, shareable, name); hv is the answer of
\* PHYSDEVOP_alloc_irq_vector: the vector (>= 0) or its error.
xen_allocate_pirq(s, gsi, shareable, hv) ==
  LET found == find_irq_by_gsi(s, gsi)
  IN  IF found # -1 THEN Return(s, found)
      ELSE
        LET s1 == IF identity_mapped_irq(gsi) \/ ~s.xen_initial_domain
                  THEN Return(dynamic_irq_init(s, gsi), gsi)
                  ELSE find_unbound_irq(s)
        IN  IF s1.fatal THEN s1
            ELSE
              LET irq == s1.ret
                  s2 == set_irq_chip(s1, irq, "xen_pirq_chip")
                  s3 == IF s.xen_initial_domain
                        THEN Hypercall(s2, <<"PHYSDEVOP_alloc_irq_vector", gsi>>)
                        ELSE s2
              IN  IF s.xen_initial_domain /\ hv < 0
                  THEN Return(dynamic_irq_cleanup(s3, irq), -ENOSPC)
                  ELSE
                    LET vector == IF s.xen_initial_domain THEN hv ELSE 0
                        flags == IF shareable THEN PIRQ_SHAREABLE ELSE 0
                        made == [mk_pirq_info(0, gsi, vector)
                                   EXCEPT !.flags = flags]
                    IN  Return([s3 EXCEPT !.irq_info[irq] = made], irq)

\* xen_destroy_irq(irq); hv_ok: PHYSDEVOP_unmap_pirq succeeded.
xen_destroy_irq(s, irq, hv_ok) ==
  IF s.irq_chip[irq] = "NULL" THEN Return(s, -ENOENT)
  ELSE
    LET s1 == IF s.xen_initial_domain
              THEN Hypercall(s, <<"PHYSDEVOP_unmap_pirq", s.irq_info[irq].gsi>>)
              ELSE s
    IN  IF s.xen_initial_domain /\ ~hv_ok
        THEN Return(s1, -22)
        ELSE LET s2 == [s1 EXCEPT !.irq_info[irq] = mk_unbound_info]
             IN  Return(dynamic_irq_cleanup(s2, irq),
                        IF s.xen_initial_domain THEN 0 ELSE -ENOENT)

(* ------------------------------------------------------------------ *)
(* The binding constructors.                                           *)
(* ------------------------------------------------------------------ *)
\* A faulty bind_evtchn_to_irq: the store to evtchn_to_irq is missing.
bind_evtchn_to_irq_no_map(s, evtchn) ==
  LET irq == s.evtchn_to_irq[evtchn]
  IN  IF irq # -1 THEN Return(s, irq)
      ELSE
        LET s1 == find_unbound_irq(s)
        IN  IF s1.fatal THEN s1
            ELSE LET n == s1.ret
                     s2 == set_irq_chip(s1, n, "xen_dynamic_chip")
                 IN  Return([s2 EXCEPT !.irq_info[n] = mk_evtchn_info(evtchn)],
                            n)

bind_evtchn_to_irq(s, evtchn) ==
  LET irq == s.evtchn_to_irq[evtchn]
  IN  IF irq # -1 THEN Return(s, irq)
      ELSE
        LET s1 == find_unbound_irq(s)
        IN  IF s1.fatal THEN s1
            ELSE LET n == s1.ret
                     s2 == set_irq_chip(s1, n, "xen_dynamic_chip")
                 IN  Return([s2 EXCEPT !.evtchn_to_irq[evtchn] = n,
                                       !.irq_info[n] = mk_evtchn_info(evtchn)],
                            n)

\* A faulty bind_ipi_to_irq: the lookup in ipi_to_irq is missing.
bind_ipi_to_irq_no_lookup(s, ipi, cpu, hv) ==
  LET s1 == find_unbound_irq(s)
  IN  IF s1.fatal THEN s1
      ELSE
        LET n == s1.ret
            s2 == Hypercall(set_irq_chip(s1, n, "xen_percpu_chip"),
                            <<"EVTCHNOP_bind_ipi", cpu>>)
        IN  IF hv < 0 THEN BUG(s2)
            ELSE
              LET s3 == [HvOpen(s2, hv) EXCEPT
                           !.evtchn_to_irq[hv] = n,
                           !.irq_info[n] = mk_ipi_info(hv, ipi),
                           !.ipi_to_irq[cpu][ipi] = n]
              IN  Return(bind_evtchn_to_cpu(s3, hv, cpu), n)

\* hv: the port EVTCHNOP_bind_ipi returns, or its error.
bind_ipi_to_irq(s, ipi, cpu, hv) ==
  LET irq == s.ipi_to_irq[cpu][ipi]
  IN  IF irq # -1 THEN Return(s, irq)
      ELSE
        LET s1 == find_unbound_irq(s)
        IN  IF s1.fatal THEN s1
            ELSE
              LET n == s1.ret
                  s2 == Hypercall(set_irq_chip(s1, n, "xen_percpu_chip"),
                                  <<"EVTCHNOP_bind_ipi", cpu>>)
              IN  IF hv < 0 THEN BUG(s2)
                  ELSE
                    LET s3 == [HvOpen(s2, hv) EXCEPT
                                 !.evtchn_to_irq[hv] = n,
                                 !.irq_info[n] = mk_ipi_info(hv, ipi),
                                 !.ipi_to_irq[cpu][ipi] = n]
                    IN  Return(bind_evtchn_to_cpu(s3, hv, cpu), n)

\* hv: the local port EVTCHNOP_bind_interdomain returns, or its error.
bind_interdomain_evtchn_to_irq(s, hv) ==
  LET s1 == Hypercall(s, <<"EVTCHNOP_bind_interdomain">>)
  IN  IF hv < 0 THEN Return(s1, hv)
      ELSE bind_evtchn_to_irq(HvOpen(s1, hv), hv)

\* A faulty bind_virq_to_irq: the call of bind_evtchn_to_cpu is missing.
bind_virq_to_irq_no_cpu(s, virq, cpu, hv) ==
  LET irq == s.virq_to_irq[cpu][virq]
  IN  IF irq # -1 THEN Return(s, irq)
      ELSE
        LET s1 == find_unbound_irq(s)
        IN  IF s1.fatal THEN s1
            ELSE
              LET n == s1.ret
                  s2 == Hypercall(set_irq_chip(s1, n, "xen_percpu_chip"),
                                  <<"EVTCHNOP_bind_virq", virq, cpu>>)
              IN  IF hv < 0 THEN BUG(s2)
                  ELSE Return([HvOpen(s2, hv) EXCEPT
                                 !.evtchn_to_irq[hv] = n,
                                 !.irq_info[n] = mk_virq_info(hv, virq),
                                 !.virq_to_irq[cpu][virq] = n], n)

\* hv: the port EVTCHNOP_bind_virq returns, or its error.
bind_virq_to_irq(s, virq, cpu, hv) ==
  LET irq == s.virq_to_irq[cpu][virq]
  IN  IF irq # -1 THEN Return(s, irq)
      ELSE
        LET s1 == find_unbound_irq(s)
        IN  IF s1.fatal THEN s1
            ELSE
              LET n == s1.ret
                  s2 == Hypercall(set_irq_chip(s1, n, "xen_percpu_chip"),
                                  <<"EVTCHNOP_bind_virq", virq, cpu>>)
              IN  IF hv < 0 THEN BUG(s2)
                  ELSE
                    LET s3 == [HvOpen(s2, hv) EXCEPT
                                 !.evtchn_to_irq[hv] = n,
                                 !.irq_info[n] = mk_virq_info(hv, virq),
                                 !.virq_to_irq[cpu][virq] = n]
                    IN  Return(bind_evtchn_to_cpu(s3, hv, cpu), n)

\* The per-cpu table entry unbind_from_irq clears for a VIRQ or an IPI.
unbind_percpu_entry(s, irq, evtchn) ==
  LET info == s.irq_info[irq]
      cpu == cpu_from_evtchn(s, evtchn)
  IN  IF info.type = "IRQT_VIRQ"
      THEN [s EXCEPT !.virq_to_irq[cpu][info.virq] = -1]
      ELSE IF info.type = "IRQT_IPI"
           THEN [s EXCEPT !.ipi_to_irq[cpu][info.ipi] = -1]
           ELSE s

unbind_from_irq(s, irq) ==
  LET evtchn == evtchn_from_irq(s, irq)
      s3 == IF ~VALID_EVTCHN(evtchn) THEN s
            ELSE LET s1 == Hypercall(s, <<"EVTCHNOP_close", evtchn>>)
                 IN  IF evtchn \notin s1.hv_ports THEN BUG(s1)
                     ELSE LET s2 == bind_evtchn_to_cpu(
                                      unbind_percpu_entry(HvClose(s1, evtchn),
                                                          irq, evtchn),
                                      evtchn, 0)
                          IN  IF s2.fatal THEN s2
                              ELSE [s2 EXCEPT !.evtchn_to_irq[evtchn] = -1]
  IN  IF s3.fatal THEN s3
      ELSE IF s3.irq_info[irq].type # "IRQT_UNBOUND"
           THEN dynamic_irq_cleanup(
                  [s3 EXCEPT !.irq_info[irq] = mk_unbound_info], irq)
           ELSE s3

(* ------------------------------------------------------------------ *)
(* The IRQ core, as far as events.c calls it and is called back.       *)
(* ------------------------------------------------------------------ *)
\* request_irq(irq, handler, flags, ...) succeeded on `cpu`: the handler is
\* registered and the first handler starts the irq up, which unmasks it.
request_irq(s, irq, flags, cpu) ==
  IF s.irq_action[irq] # "NULL"
  THEN s
  ELSE unmask_irq([s EXCEPT !.irq_action[irq] = flags], irq, cpu)

\* free_irq(irq, dev_id): the handler is removed and the irq shut down
\* (chip->shutdown for the pirq chip, chip->disable for the others).
free_irq(s, irq) ==
  LET s1 == [s EXCEPT !.irq_action[irq] = "NULL"]
  IN  IF s.irq_chip[irq] = "xen_pirq_chip"
      THEN shutdown_pirq(s1, irq)
      ELSE mask_irq(s1, irq)

(* ------------------------------------------------------------------ *)
(* Binding with a handler.  rq is request_irq's return value.          *)
(* ------------------------------------------------------------------ *)
bind_evtchn_to_irqhandler(s, evtchn, flags, rq, cpu) ==
  LET s1 == bind_evtchn_to_irq(s, evtchn)
  IN  IF s1.fatal THEN s1
      ELSE IF rq # 0
           THEN Return(unbind_from_irq(s1, s1.ret), rq)
           ELSE Return(request_irq(s1, s1.ret, flags, cpu), s1.ret)

bind_interdomain_evtchn_to_irqhandler(s, hv, flags, rq, cpu) ==
  LET s1 == bind_interdomain_evtchn_to_irq(s, hv)
  IN  IF s1.fatal \/ s1.ret < 0 THEN s1
      ELSE IF rq # 0
           THEN Return(unbind_from_irq(s1, s1.ret), rq)
           ELSE Return(request_irq(s1, s1.ret, flags, cpu), s1.ret)

bind_virq_to_irqhandler(s, virq, vcpu, hv, flags, rq, cpu) ==
  LET s1 == bind_virq_to_irq(s, virq, vcpu, hv)
  IN  IF s1.fatal THEN s1
      ELSE IF rq # 0
           THEN Return(unbind_from_irq(s1, s1.ret), rq)
           ELSE Return(request_irq(s1, s1.ret, flags, cpu), s1.ret)

\* IRQF_NO_SUSPEND | IRQF_FORCE_RESUME | IRQF_EARLY_RESUME are added.
bind_ipi_to_irqhandler(s, ipi, vcpu, hv, rq, cpu) ==
  LET s1 == bind_ipi_to_irq(s, ipi, vcpu, hv)
  IN  IF s1.fatal \/ s1.ret < 0 THEN s1
      ELSE IF rq # 0
           THEN Return(unbind_from_irq(s1, s1.ret), rq)
           ELSE Return(request_irq(s1, s1.ret, "no_suspend", cpu), s1.ret)

unbind_from_irqhandler(s, irq) ==
  LET s1 == free_irq(s, irq)
  IN  IF s1.fatal THEN s1 ELSE unbind_from_irq(s1, irq)

(* ------------------------------------------------------------------ *)
(* Affinity.                                                           *)
(* ------------------------------------------------------------------ *)
\* A faulty rebind_irq_to_cpu: the answer of EVTCHNOP_bind_vcpu is not looked
\* at.
rebind_irq_to_cpu_unchecked(s, irq, tcpu, hv_ok) ==
  LET evtchn == evtchn_from_irq(s, irq)
  IN  IF ~VALID_EVTCHN(evtchn) THEN Return(s, -1)
      ELSE LET s1 == Hypercall(s, <<"EVTCHNOP_bind_vcpu", evtchn, tcpu>>)
           IN  Return(bind_evtchn_to_cpu(s1, evtchn, tcpu), 0)

\* rebind_irq_to_cpu(irq, tcpu); hv_ok: EVTCHNOP_bind_vcpu returned >= 0.
rebind_irq_to_cpu(s, irq, tcpu, hv_ok) ==
  LET evtchn == evtchn_from_irq(s, irq)
  IN  IF ~VALID_EVTCHN(evtchn) THEN Return(s, -1)
      ELSE LET s1 == Hypercall(s, <<"EVTCHNOP_bind_vcpu", evtchn, tcpu>>)
           IN  Return(IF hv_ok THEN bind_evtchn_to_cpu(s1, evtchn, tcpu)
                               ELSE s1,
                      0)

\* set_affinity_irq(irq, dest), tcpu = cpumask_first(dest).
set_affinity_irq(s, irq, tcpu, hv_ok) == rebind_irq_to_cpu(s, irq, tcpu, hv_ok)

\* The chips that have a set_affinity operation.
has_set_affinity(chip) == chip \in {"xen_dynamic_chip", "xen_pirq_chip"}

\* rebind_evtchn_irq(evtchn, irq) on `cpu`.  aff says what irq_set_affinity
\* does: "pending" (the move is deferred to the next ack), or the chip's
\* set_affinity is called at once and EVTCHNOP_bind_vcpu answers "ok" or
\* "fail".
rebind_evtchn_irq(s, evtchn, irq, aff, cpu) ==
  LET s1 == mask_irq(s, irq)
  IN  IF s1.evtchn_to_irq[evtchn] # -1 THEN BUG(s1)
      ELSE IF s1.irq_info[irq].type = "IRQT_UNBOUND" THEN BUG(s1)
      ELSE
        LET s2 == [s1 EXCEPT !.evtchn_to_irq[evtchn] = irq,
                             !.irq_info[irq] = mk_evtchn_info(evtchn)]
            s3 == IF aff = "pending" \/ ~has_set_affinity(s2.irq_chip[irq])
                  THEN s2
                  ELSE set_affinity_irq(s2, irq, 0, aff = "ok")
        IN  IF s3.fatal THEN s3 ELSE unmask_irq(s3, irq, cpu)

(* ------------------------------------------------------------------ *)
(* Resume.                                                             *)
(* ------------------------------------------------------------------ *)
\* A faulty restore_cpu_virqs: the store to irq_info is missing.
restore_cpu_virq_no_info(s, cpu, virq, hv) ==
  LET irq == s.virq_to_irq[cpu][virq]
      info == s.irq_info[irq]
  IN  IF info.type # "IRQT_VIRQ" \/ info.virq # virq THEN BUG(s)
      ELSE LET s1 == Hypercall(s, <<"EVTCHNOP_bind_virq", virq, cpu>>)
           IN  IF hv < 0 THEN BUG(s1)
               ELSE bind_evtchn_to_cpu(
                      [HvOpen(s1, hv) EXCEPT !.evtchn_to_irq[hv] = irq],
                      hv, cpu)

\* One pass of the loop of restore_cpu_virqs; hv is EVTCHNOP_bind_virq's port
\* or error.
restore_cpu_virq(s, cpu, virq, hv) ==
  LET irq == s.virq_to_irq[cpu][virq]
      info == s.irq_info[irq]
  IN  IF info.type # "IRQT_VIRQ" \/ info.virq # virq THEN BUG(s)
      ELSE LET s1 == Hypercall(s, <<"EVTCHNOP_bind_virq", virq, cpu>>)
           IN  IF hv < 0 THEN BUG(s1)
               ELSE bind_evtchn_to_cpu(
                      [HvOpen(s1, hv) EXCEPT
                         !.evtchn_to_irq[hv] = irq,
                         !.irq_info[irq] = mk_virq_info(hv, virq)],
                      hv, cpu)

\* One pass of the loop of restore_cpu_ipis.
restore_cpu_ipi(s, cpu, ipi, hv) ==
  LET irq == s.ipi_to_irq[cpu][ipi]
      info == s.irq_info[irq]
  IN  IF info.type # "IRQT_IPI" \/ info.ipi # ipi THEN BUG(s)
      ELSE LET s1 == Hypercall(s, <<"EVTCHNOP_bind_ipi", cpu>>)
           IN  IF hv < 0 THEN BUG(s1)
               ELSE bind_evtchn_to_cpu(
                      [HvOpen(s1, hv) EXCEPT
                         !.evtchn_to_irq[hv] = irq,
                         !.irq_info[irq] = mk_ipi_info(hv, ipi)],
                      hv, cpu)

\* The per-cpu table entries in the order resume visits them: for each cpu its
\* virqs, then its ipis.  Entry i of 1 .. NrPercpuEntries.
NrPercpuEntries == NR_CPUS * (NR_VIRQS + XEN_NR_IPIS)

EntryCpu(i) == (i - 1) \div (NR_VIRQS + XEN_NR_IPIS)

EntryIdx(i) == (i - 1) % (NR_VIRQS + XEN_NR_IPIS)

EntryBound(s, i) ==
  IF EntryIdx(i) < NR_VIRQS
  THEN s.virq_to_irq[EntryCpu(i)][EntryIdx(i)] # -1
  ELSE s.ipi_to_irq[EntryCpu(i)][EntryIdx(i) - NR_VIRQS] # -1

\* for_each_possible_cpu(cpu) { restore_cpu_virqs(cpu); restore_cpu_ipis(cpu); }
\* alloc: the hypervisor's answers to the bind hypercalls, in order; a bind
\* that finds none left fails.
RECURSIVE restore_percpu(_, _, _)
restore_percpu(s, i, alloc) ==
  IF i > NrPercpuEntries \/ s.fatal THEN s
  ELSE IF ~EntryBound(s, i) THEN restore_percpu(s, i + 1, alloc)
  ELSE LET hv == IF alloc = <<>> THEN -22 ELSE Head(alloc)
           rest == IF alloc = <<>> THEN <<>> ELSE Tail(alloc)
       IN  restore_percpu(
             IF EntryIdx(i) < NR_VIRQS
             THEN restore_cpu_virq(s, EntryCpu(i), EntryIdx(i), hv)
             ELSE restore_cpu_ipi(s, EntryCpu(i), EntryIdx(i) - NR_VIRQS, hv),
             i + 1, rest)

\* The loop that unmasks the IRQF_NO_SUSPEND irqs, from irq upwards.  evtchn is
\* unsigned and never equals -1, so every such irq is unmasked.
RECURSIVE resume_unmask(_, _, _)
resume_unmask(s, irq, cpu) ==
  IF irq >= nr_irqs THEN s
  ELSE IF s.irq_chip[irq] = "NULL" \/ s.irq_action[irq] # "no_suspend"
       THEN resume_unmask(s, irq + 1, cpu)
       ELSE resume_unmask(unmask_evtchn(s, evtchn_from_irq(s, irq), cpu),
                          irq + 1, cpu)

\* xen_irq_resume() on `cpu`; gmfn_ok: PHYSDEVOP_pirq_eoi_gmfn succeeded.
xen_irq_resume(s, alloc, gmfn_ok, cpu) ==
  LET s1 == init_evtchn_cpu_bindings(s)
      s2 == [s1 EXCEPT !.evtchn_mask = Ports]
      s3 == [s2 EXCEPT !.irq_info =
                          [irq \in Irqs |-> [s2.irq_info[irq] EXCEPT !.evtchn = 0]]]
      s4 == [s3 EXCEPT !.evtchn_to_irq = [p \in Ports |-> -1]]
      s5 == restore_percpu(s4, 1, alloc)
  IN  IF s5.fatal THEN s5
      ELSE LET s6 == resume_unmask(s5, 0, cpu)
           IN  IF s6.pirq_eoi_does_unmask
               THEN LET s7 == Hypercall(s6, <<"PHYSDEVOP_pirq_eoi_gmfn">>)
                    IN  IF gmfn_ok THEN s7 ELSE BUG(s7)
               ELSE s6

\* Suspend and resume invalidate the guest's whole port space.
HvInvalidate(s) == [s EXCEPT !.hv_ports = {}]

(* ------------------------------------------------------------------ *)
(* The upcall: __xen_evtchn_do_upcall.                                  *)
(* ------------------------------------------------------------------ *)
\* MASK_LSBS(w, i): the bits of w from bit i upwards.
MASK_LSBS(w, i) == {b \in w : b >= i}

\* __ffs(w): the lowest bit of w.
ffs(w) == CHOOSE b \in w : \A other \in w : b <= other

\* x & ((1UL << k) - 1)
AndLowBits(x, k) == x % (2 ^ k)

\* A faulty start bit: the second scan of the starting word starts at
\* start_bit_idx like the first.
scan_start_bit_twice(i, word_idx, start_word_idx, start_bit_idx) ==
  IF word_idx = start_word_idx THEN start_bit_idx ELSE 0

\* The bit the scan of a word starts at: 0, but start_bit_idx the first time
\* the starting word is scanned, and `bit_idx &= (1UL << start_bit_idx) - 1`
\* of the 0 just assigned the second time.
scan_start_bit(i, word_idx, start_word_idx, start_bit_idx) ==
  IF word_idx = start_word_idx
  THEN IF i = 0 THEN start_bit_idx ELSE AndLowBits(0, start_bit_idx)
  ELSE 0

\* A faulty end of the for loop's body: the starting word is done with after
\* its first visit like every other word.
words_left_once(pending_words, word_idx, start_word_idx, i) ==
  pending_words \ {word_idx}

\* A faulty end of the for loop's body: the starting word is never done with.
words_left_keeps_start(pending_words, word_idx, start_word_idx, i) ==
  IF word_idx # start_word_idx
  THEN pending_words \ {word_idx}
  ELSE pending_words

\* pending_words at the end of the for loop's body: every word but the
\* starting word on its first visit is done with.
words_left(pending_words, word_idx, start_word_idx, i) ==
  IF word_idx # start_word_idx \/ i # 0
  THEN pending_words \ {word_idx}
  ELSE pending_words

\* A faulty cursor: the word index stays when the last bit of a word was
\* processed.
next_word_idx_stay(word_idx, bit_idx) == word_idx

\* The cursor's word once bit_idx is behind the processed port:
\* bit_idx ? word_idx : (word_idx+1) % BITS_PER_LONG.
next_word_idx(word_idx, bit_idx) ==
  IF bit_idx # 0 THEN word_idx ELSE (word_idx + 1) % BITS_PER_LONG

\* The bits of word idx that active_evtchns(cpu, sh, idx) has set.
active_bits(s, cpu, idx) ==
  {p % BITS_PER_LONG : p \in active_evtchns(s, cpu, idx)}

\* ack_dynirq(irq) on `cpu`; disabled: desc->status has IRQ_DISABLED.
ack_dynirq(s, irq, disabled, cpu) ==
  LET evtchn == evtchn_from_irq(s, irq)
  IN  IF VALID_EVTCHN(evtchn) /\ ~disabled
      THEN unmask_evtchn(s, evtchn, cpu)
      ELSE s

\* generic_handle_irq_desc(irq, desc): the flow handler runs the handlers,
\* which change nothing here, and calls the chip back: eoi for the dynamic and
\* the pirq chip, ack for the percpu chip.
generic_handle_irq_desc(s, irq, disabled, cpu) ==
  IF s.irq_chip[irq] = "xen_pirq_chip"
  THEN pirq_eoi(s, irq, cpu)
  ELSE ack_dynirq(s, irq, disabled, cpu)

\* No upcall is running.
IdleFrame ==
  [pc |-> "idle", cpu |-> 0, pending_words |-> {}, start_word_idx |-> 0,
   start_bit_idx |-> 0, word_idx |-> 0, bit_idx |-> 0, i |-> 0,
   pending_bits |-> {}]

NoEntry ==
  [evtchn_pending |-> {}, evtchn_mask |-> {}, cpu_evtchn_mask |-> {},
   evtchn_pending_sel |-> {}]

(* ------------------------------------------------------------------ *)
(* The state machine of the mapping tables.                            *)
(* ------------------------------------------------------------------ *)
\* xen_init_IRQ(): no irq is bound, no port is mapped, every port is masked
\* and sits in CPU 0's mask.  Whether the guest is the privileged domain and
\* whether the hypervisor took the pirq_needs_eoi page are facts of the boot.
Init ==
  /\ irq_info = [irq \in Irqs |-> mk_unbound_info]
  /\ evtchn_to_irq = [p \in Ports |-> -1]
  /\ cpu_evtchn_mask = [c \in CPUs |-> IF c = 0 THEN Ports ELSE {}]
  /\ virq_to_irq = [c \in CPUs |-> [v \in Virqs |-> -1]]
  /\ ipi_to_irq = [c \in CPUs |-> [i \in Ipis |-> -1]]
  /\ irq_chip = [irq \in Irqs |-> IF irq < get_nr_hw_irqs THEN "no_irq_chip"
                                                          ELSE "NULL"]
  /\ irq_action = [irq \in Irqs |-> "NULL"]
  /\ evtchn_pending = {}
  /\ evtchn_mask = Ports
  /\ evtchn_pending_sel = [c \in CPUs |-> {}]
  /\ evtchn_upcall_pending = [c \in CPUs |-> FALSE]
  /\ pirq_needs_eoi_bits = {}
  /\ pirq_eoi_does_unmask \in BOOLEAN
  /\ xen_initial_domain \in BOOLEAN
  /\ hv_ports = {}
  /\ fatal = FALSE
  /\ hc = <<>>
  /\ last = [op |-> "xen_init_IRQ", irq |-> -1, evtchn |-> 0, cpu |-> 0,
             idx |-> 0, hv |-> 0, rq |-> 0, ret |-> 0]
  /\ nops = 0
  /\ xed_nesting_count = [c \in CPUs |-> 0]
  /\ current_word_idx = [c \in CPUs |-> 0]
  /\ current_bit_idx = [c \in CPUs |-> 0]
  /\ upcall = IdleFrame
  /\ entry = NoEntry
  /\ dispatched = <<>>
  /\ irq_mapping_update_lock = -1
  /\ writer = NoWriter
  /\ reader = NoReader

\* The operation `op` with these arguments and answers ran and left r.
Apply(r, op, irq, evtchn, cpu, idx, hv, rq) ==
  /\ irq_info' = r.irq_info
  /\ evtchn_to_irq' = r.evtchn_to_irq
  /\ cpu_evtchn_mask' = r.cpu_evtchn_mask
  /\ virq_to_irq' = r.virq_to_irq
  /\ ipi_to_irq' = r.ipi_to_irq
  /\ irq_chip' = r.irq_chip
  /\ irq_action' = r.irq_action
  /\ evtchn_pending' = r.evtchn_pending
  /\ evtchn_mask' = r.evtchn_mask
  /\ evtchn_pending_sel' = r.evtchn_pending_sel
  /\ evtchn_upcall_pending' = r.evtchn_upcall_pending
  /\ pirq_needs_eoi_bits' = r.pirq_needs_eoi_bits
  /\ pirq_eoi_does_unmask' = r.pirq_eoi_does_unmask
  /\ xen_initial_domain' = r.xen_initial_domain
  /\ hv_ports' = r.hv_ports
  /\ fatal' = r.fatal
  /\ hc' = r.hc
  /\ last' = [op |-> op, irq |-> irq, evtchn |-> evtchn, cpu |-> cpu,
              idx |-> idx, hv |-> IF r.hc = <<>> THEN 0 ELSE hv, rq |-> rq,
              ret |-> r.ret]
  /\ nops' = nops + 1
  /\ UNCHANGED scanvars
  /\ UNCHANGED stepvars

\* The guest runs until BUG() or panic().
Running == ~fatal /\ nops < MaxOps

\* The port the hypervisor hands out next: Xen takes the lowest free one.
NextPort(s) ==
  IF FreePorts(s) = {} THEN {}
  ELSE {CHOOSE p \in FreePorts(s) : \A q \in FreePorts(s) : p <= q}

\* What a bind hypercall may answer: the next port, or an error.
HvAnswers == NextPort(Cur) \cup HvErrors

\* What request_irq may return.
RqAnswers == {0} \cup IrqCoreErrors

\* The ports a caller may hand to bind_evtchn_to_irq: a port already mapped,
\* or one it has just obtained from the hypervisor.
BindablePorts ==
  {p \in Ports \ {0} : evtchn_to_irq[p] # -1} \cup NextPort(Cur)

HandlerFlags == {"plain", "no_suspend"}

\* The irq a constructor gave to its bind_*_to_irqhandler, or -1.
Given(b) == IF b.fatal \/ b.ret < 0 THEN -1 ELSE b.ret

BindEvtchnToIrq ==
  /\ Running
  /\ \E evtchn \in BindablePorts :
       Apply(bind_evtchn_to_irq(HvOpen(Cur, evtchn), evtchn),
             "bind_evtchn_to_irq", -1, evtchn, 0, 0, 0, 0)

BindInterdomainEvtchnToIrq ==
  /\ Running
  /\ \E hv \in HvAnswers :
       Apply(bind_interdomain_evtchn_to_irq(Cur, hv),
             "bind_interdomain_evtchn_to_irq", -1, 0, 0, 0, hv, 0)

BindVirqToIrq ==
  /\ Running
  /\ \E virq \in Virqs, cpu \in CPUs, hv \in HvAnswers :
       Apply(bind_virq_to_irq(Cur, virq, cpu, hv),
             "bind_virq_to_irq", -1, 0, cpu, virq, hv, 0)

BindIpiToIrq ==
  /\ Running
  /\ \E ipi \in Ipis, cpu \in CPUs, hv \in HvAnswers :
       Apply(bind_ipi_to_irq(Cur, ipi, cpu, hv),
             "bind_ipi_to_irq", -1, 0, cpu, ipi, hv, 0)

XenAllocatePirq ==
  /\ Running
  /\ \E gsi \in Gsis, shareable \in BOOLEAN, hv \in {0} \cup HvErrors :
       Apply(xen_allocate_pirq(Cur, gsi, shareable, hv),
             "xen_allocate_pirq", -1, 0, 0, gsi, hv, 0)

XenDestroyIrq ==
  /\ Running
  /\ \E irq \in Irqs, hv_ok \in BOOLEAN :
       /\ irq_info[irq].type = "IRQT_PIRQ"
       /\ Apply(xen_destroy_irq(Cur, irq, hv_ok),
                "xen_destroy_irq", irq, 0, 0, 0, IF hv_ok THEN 0 ELSE -22, 0)

StartupPirq ==
  /\ Running
  /\ \E irq \in Irqs, hv \in HvAnswers, needs \in BOOLEAN, cpu \in CPUs :
       /\ irq_chip[irq] = "xen_pirq_chip"
       /\ Apply(startup_pirq(Cur, irq, hv, needs, cpu),
                "startup_pirq", irq, 0, 0, 0, hv, 0)

ShutdownPirq ==
  /\ Running
  /\ \E irq \in Irqs :
       /\ irq_chip[irq] = "xen_pirq_chip"
       /\ Apply(shutdown_pirq(Cur, irq), "shutdown_pirq", irq, 0, 0, 0, 0, 0)

SetAffinityIrq ==
  /\ Running
  /\ \E irq \in Irqs, tcpu \in CPUs, hv_ok \in BOOLEAN :
       /\ has_set_affinity(irq_chip[irq])
       /\ Apply(set_affinity_irq(Cur, irq, tcpu, hv_ok),
                "set_affinity_irq", irq, 0, tcpu, 0,
                IF hv_ok THEN 0 ELSE -22, 0)

BindEvtchnToIrqhandler ==
  /\ Running
  /\ \E evtchn \in BindablePorts, flags \in HandlerFlags, rq \in RqAnswers,
        cpu \in CPUs :
       Apply(bind_evtchn_to_irqhandler(HvOpen(Cur, evtchn), evtchn, flags,
                                       rq, cpu),
             "bind_evtchn_to_irqhandler",
             Given(bind_evtchn_to_irq(HvOpen(Cur, evtchn), evtchn)),
             evtchn, 0, 0, 0, rq)

BindInterdomainEvtchnToIrqhandler ==
  /\ Running
  /\ \E hv \in HvAnswers, flags \in HandlerFlags, rq \in RqAnswers,
        cpu \in CPUs :
       Apply(bind_interdomain_evtchn_to_irqhandler(Cur, hv, flags, rq, cpu),
             "bind_interdomain_evtchn_to_irqhandler",
             Given(bind_interdomain_evtchn_to_irq(Cur, hv)), 0, 0, 0, hv, rq)

BindVirqToIrqhandler ==
  /\ Running
  /\ \E virq \in Virqs, vcpu \in CPUs, hv \in HvAnswers,
        flags \in HandlerFlags, rq \in RqAnswers, cpu \in CPUs :
       Apply(bind_virq_to_irqhandler(Cur, virq, vcpu, hv, flags, rq, cpu),
             "bind_virq_to_irqhandler",
             Given(bind_virq_to_irq(Cur, virq, vcpu, hv)), 0, vcpu, virq, hv,
             rq)

BindIpiToIrqhandler ==
  /\ Running
  /\ \E ipi \in Ipis, vcpu \in CPUs, hv \in HvAnswers, rq \in RqAnswers,
        cpu \in CPUs :
       Apply(bind_ipi_to_irqhandler(Cur, ipi, vcpu, hv, rq, cpu),
             "bind_ipi_to_irqhandler",
             Given(bind_ipi_to_irq(Cur, ipi, vcpu, hv)), 0, vcpu, ipi, hv, rq)

\* The irq is one the caller holds from a binding.
UnbindFromIrqhandler ==
  /\ Running
  /\ \E irq \in Irqs :
       /\ irq_info[irq].type # "IRQT_UNBOUND"
       /\ Apply(unbind_from_irqhandler(Cur, irq),
                "unbind_from_irqhandler", irq, 0, 0, 0, 0, 0)

\* Callers rebind the irq of an inter-domain channel whose mapping resume
\* cleared, to a port they have just obtained.
RebindEvtchnIrq ==
  /\ Running
  /\ \E evtchn \in NextPort(Cur), irq \in Irqs,
        aff \in {"pending", "ok", "fail"}, cpu \in CPUs :
       /\ irq_info[irq].type = "IRQT_EVTCHN"
       /\ irq_info[irq].evtchn = 0
       /\ Apply(rebind_evtchn_irq(HvOpen(Cur, evtchn), evtchn, irq, aff, cpu),
                "rebind_evtchn_irq", irq, evtchn, 0, 0, 0, 0)

\* The answers of the hypervisor to resume's bind hypercalls: the ports of
\* the new port space from the lowest on (the binds beyond the last fail).
ResumeAlloc == [i \in 1 .. (NR_EVENT_CHANNELS - 1) |-> i]

XenIrqResume ==
  /\ Running
  /\ \E gmfn_ok \in BOOLEAN, cpu \in CPUs :
       Apply(xen_irq_resume(HvInvalidate(Cur), ResumeAlloc, gmfn_ok, cpu),
             "xen_irq_resume", -1, 0, 0, 0, 0, 0)

Next ==
  \/ BindEvtchnToIrq
  \/ BindInterdomainEvtchnToIrq
  \/ BindVirqToIrq
  \/ BindIpiToIrq
  \/ XenAllocatePirq
  \/ XenDestroyIrq
  \/ StartupPirq
  \/ ShutdownPirq
  \/ SetAffinityIrq
  \/ BindEvtchnToIrqhandler
  \/ BindInterdomainEvtchnToIrqhandler
  \/ BindVirqToIrqhandler
  \/ BindIpiToIrqhandler
  \/ UnbindFromIrqhandler
  \/ RebindEvtchnIrq
  \/ XenIrqResume

Spec == Init /\ [][Next]_vars

(* ------------------------------------------------------------------ *)
(* The same operations in a non-privileged guest whose boot cpu has    *)
(* bound its timer virq, as every guest does right after xen_init_IRQ. *)
(* ------------------------------------------------------------------ *)
\* The state xen_init_IRQ() leaves in a non-privileged guest.
Boot ==
  [irq_info |-> [irq \in Irqs |-> mk_unbound_info],
   evtchn_to_irq |-> [p \in Ports |-> -1],
   cpu_evtchn_mask |-> [c \in CPUs |-> IF c = 0 THEN Ports ELSE {}],
   virq_to_irq |-> [c \in CPUs |-> [v \in Virqs |-> -1]],
   ipi_to_irq |-> [c \in CPUs |-> [i \in Ipis |-> -1]],
   irq_chip |-> [irq \in Irqs |-> IF irq < get_nr_hw_irqs THEN "no_irq_chip"
                                                          ELSE "NULL"],
   irq_action |-> [irq \in Irqs |-> "NULL"],
   evtchn_pending |-> {}, evtchn_mask |-> Ports,
   evtchn_pending_sel |-> [c \in CPUs |-> {}],
   evtchn_upcall_pending |-> [c \in CPUs |-> FALSE],
   pirq_needs_eoi_bits |-> {}, pirq_eoi_does_unmask |-> FALSE,
   xen_initial_domain |-> FALSE, hv_ports |-> {}, fatal |-> FALSE,
   hc |-> <<>>, ret |-> 0]

\* bind_virq_to_irq(0, 0) has run on the boot state and got port 1.
InitVirq ==
  LET b == bind_virq_to_irq(Boot, 0, 0, 1)
  IN  /\ irq_info = b.irq_info
      /\ evtchn_to_irq = b.evtchn_to_irq
      /\ cpu_evtchn_mask = b.cpu_evtchn_mask
      /\ virq_to_irq = b.virq_to_irq
      /\ ipi_to_irq = b.ipi_to_irq
      /\ irq_chip = b.irq_chip
      /\ irq_action = b.irq_action
      /\ evtchn_pending = b.evtchn_pending
      /\ evtchn_mask = b.evtchn_mask
      /\ evtchn_pending_sel = b.evtchn_pending_sel
      /\ evtchn_upcall_pending = b.evtchn_upcall_pending
      /\ pirq_needs_eoi_bits = b.pirq_needs_eoi_bits
      /\ pirq_eoi_does_unmask = b.pirq_eoi_does_unmask
      /\ xen_initial_domain = b.xen_initial_domain
      /\ hv_ports = b.hv_ports
      /\ fatal = b.fatal
      /\ hc = b.hc
      /\ last = [op |-> "bind_virq_to_irq", irq |-> -1, evtchn |-> 0,
                 cpu |-> 0, idx |-> 0, hv |-> 1, rq |-> 0, ret |-> b.ret]
      /\ nops = 0
      /\ xed_nesting_count = [c \in CPUs |-> 0]
      /\ current_word_idx = [c \in CPUs |-> 0]
      /\ current_bit_idx = [c \in CPUs |-> 0]
      /\ upcall = IdleFrame
      /\ entry = NoEntry
      /\ dispatched = <<>>
      /\ irq_mapping_update_lock = -1
      /\ writer = NoWriter
      /\ reader = NoReader

\* MaxOps operations from there.
SpecVirq == InitVirq /\ [][Next]_vars

\* xen_allocate_pirq(nr_hw_irqs, ...) has run on the boot state: in a
\* non-privileged guest the irq is the gsi, the first irq of the dynamic
\* range, which find_unbound_irq never hands out.
InitPirq ==
  LET b == xen_allocate_pirq(Boot, get_nr_hw_irqs, FALSE, 0)
  IN  /\ irq_info = b.irq_info
      /\ evtchn_to_irq = b.evtchn_to_irq
      /\ cpu_evtchn_mask = b.cpu_evtchn_mask
      /\ virq_to_irq = b.virq_to_irq
      /\ ipi_to_irq = b.ipi_to_irq
      /\ irq_chip = b.irq_chip
      /\ irq_action = b.irq_action
      /\ evtchn_pending = b.evtchn_pending
      /\ evtchn_mask = b.evtchn_mask
      /\ evtchn_pending_sel = b.evtchn_pending_sel
      /\ evtchn_upcall_pending = b.evtchn_upcall_pending
      /\ pirq_needs_eoi_bits = b.pirq_needs_eoi_bits
      /\ pirq_eoi_does_unmask = b.pirq_eoi_does_unmask
      /\ xen_initial_domain = b.xen_initial_domain
      /\ hv_ports = b.hv_ports
      /\ fatal = b.fatal
      /\ hc = b.hc
      /\ last = [op |-> "xen_allocate_pirq", irq |-> -1, evtchn |-> 0,
                 cpu |-> 0, idx |-> get_nr_hw_irqs, hv |-> 0, rq |-> 0,
                 ret |-> b.ret]
      /\ nops = 0
      /\ xed_nesting_count = [c \in CPUs |-> 0]
      /\ current_word_idx = [c \in CPUs |-> 0]
      /\ current_bit_idx = [c \in CPUs |-> 0]
      /\ upcall = IdleFrame
      /\ entry = NoEntry
      /\ dispatched = <<>>
      /\ irq_mapping_update_lock = -1
      /\ writer = NoWriter
      /\ reader = NoReader

\* MaxOps operations from there.
SpecPirq == InitPirq /\ [][Next]_vars

(* ------------------------------------------------------------------ *)
(* The pass-through irqs with their eoi, and the hypervisor writing    *)
(* the page of pirq_needs_eoi_bits.                                    *)
(* ------------------------------------------------------------------ *)
\* The hypervisor sets or clears the bit of a gsi in the page it was given
\* with PHYSDEVOP_pirq_eoi_gmfn.
HvPirqEoiMap ==
  /\ Running
  /\ pirq_eoi_does_unmask
  /\ \E gsi \in Gsis :
       Apply([Cur EXCEPT !.pirq_needs_eoi_bits =
                IF gsi \in @ THEN @ \ {gsi} ELSE @ \cup {gsi}],
             "pirq_eoi_map", -1, 0, 0, gsi, 0, 0)

\* ack_pirq(irq) on `cpu`, the eoi of the flow handler for an irq that was
\* dispatched through its port.
AckPirq ==
  /\ Running
  /\ \E irq \in Irqs, cpu \in CPUs :
       /\ irq_chip[irq] = "xen_pirq_chip"
       /\ irq_info[irq].type = "IRQT_PIRQ"
       /\ VALID_EVTCHN(evtchn_from_irq(Cur, irq))
       /\ Apply(pirq_eoi(Cur, irq, cpu), "ack_pirq", irq,
                evtchn_from_irq(Cur, irq), cpu, 0, 0, 0)

\* The IRQ core resends an irq on some cpu (check_irq_resend):
\* chip->retrigger, which the dynamic and the pirq chip have.
RetriggerIrq ==
  /\ Running
  /\ \E irq \in Irqs, cpu \in CPUs :
       /\ irq_chip[irq] \in {"xen_dynamic_chip", "xen_pirq_chip"}
       /\ Apply(retrigger_irq(Cur, irq, cpu), "retrigger_irq", irq,
                evtchn_from_irq(Cur, irq), cpu, 0, 0, 0)

NextEoi ==
  \/ XenAllocatePirq
  \/ StartupPirq
  \/ ShutdownPirq
  \/ AckPirq
  \/ HvPirqEoiMap
  \/ RetriggerIrq

SpecEoi == Init /\ [][NextEoi]_vars

(* ------------------------------------------------------------------ *)
(* The state machine of the upcall, on bitmaps nobody else changes.    *)
(* ------------------------------------------------------------------ *)
\* The irq a bound port has in the initial states of the upcall: the irqs are
\* given from the highest down, as find_unbound_irq gives them.
PortIrq(p) == nr_irqs - p

\* The cpu each port notifies, or -1 for a port that is not bound.
PortOwners ==
  [Ports \ {0} -> {-1} \cup CPUs] \cap
  {o \in [Ports \ {0} -> {-1} \cup CPUs] :
     \A p \in Ports \ {0} : o[p] # -1 => PortIrq(p) > get_nr_hw_irqs}

\* Inter-domain channels are bound with handlers; events are pending on some
\* ports, some ports are masked, an upcall is due on every cpu.
InitScan ==
  \E owner \in PortOwners, pend \in SUBSET (Ports \ {0}),
     masked \in SUBSET (Ports \ {0}), sel \in SUBSET Words,
     w0 \in Words, b0 \in Bits :
    LET bound == {p \in Ports \ {0} : owner[p] # -1}
        irqs == {PortIrq(p) : p \in bound}
        port(irq) == nr_irqs - irq
    IN  /\ irq_info = [irq \in Irqs |->
                         IF irq \in irqs
                         THEN [mk_evtchn_info(port(irq))
                                 EXCEPT !.cpu = owner[port(irq)]]
                         ELSE mk_unbound_info]
        /\ evtchn_to_irq = [p \in Ports |->
                              IF p \in bound THEN PortIrq(p) ELSE -1]
        /\ cpu_evtchn_mask =
             [c \in CPUs |-> {p \in Ports : IF p \in bound THEN owner[p] = c
                                                            ELSE c = 0}]
        /\ virq_to_irq = [c \in CPUs |-> [v \in Virqs |-> -1]]
        /\ ipi_to_irq = [c \in CPUs |-> [i \in Ipis |-> -1]]
        /\ irq_chip = [irq \in Irqs |->
                         IF irq \in irqs THEN "xen_dynamic_chip"
                         ELSE IF irq < get_nr_hw_irqs THEN "no_irq_chip"
                                                      ELSE "NULL"]
        /\ irq_action = [irq \in Irqs |->
                           IF irq \in irqs THEN "plain" ELSE "NULL"]
        /\ evtchn_pending = pend
        /\ evtchn_mask = {0} \cup masked
        /\ evtchn_pending_sel = [c \in CPUs |-> sel]
        /\ evtchn_upcall_pending = [c \in CPUs |-> TRUE]
        /\ pirq_needs_eoi_bits = {}
        /\ pirq_eoi_does_unmask = FALSE
        /\ xen_initial_domain = FALSE
        /\ hv_ports = bound
        /\ fatal = FALSE
        /\ hc = <<>>
        /\ last = [op |-> "xen_init_IRQ", irq |-> -1, evtchn |-> 0, cpu |-> 0,
                   idx |-> 0, hv |-> 0, rq |-> 0, ret |-> 0]
        /\ nops = 0
        /\ xed_nesting_count = [c \in CPUs |-> 0]
        /\ current_word_idx = [c \in CPUs |-> w0]
        /\ current_bit_idx = [c \in CPUs |-> b0]
        /\ upcall = IdleFrame
        /\ entry = NoEntry
        /\ dispatched = <<>>
        /\ irq_mapping_update_lock = -1
        /\ writer = NoWriter
        /\ reader = NoReader

\* A step of the upcall left the shared bitmaps as in r; it touches neither
\* the tables nor the descriptors.
UpcallStep(r) ==
  /\ evtchn_pending' = r.evtchn_pending
  /\ evtchn_mask' = r.evtchn_mask
  /\ evtchn_pending_sel' = r.evtchn_pending_sel
  /\ evtchn_upcall_pending' = r.evtchn_upcall_pending
  /\ hc' = r.hc
  /\ UNCHANGED <<tables, irq_chip, irq_action, pirq_needs_eoi_bits,
                 pirq_eoi_does_unmask, xen_initial_domain, hv_ports, fatal,
                 last, nops>>
  /\ UNCHANGED stepvars

\* The head of the do loop, entered from the callback of a cpu whose upcall
\* is due or from the loop's end: the upcall flag is cleared, a nested entry
\* leaves at once, and the selector is exchanged for 0.
UpcallBegin ==
  /\ ~fatal
  /\ upcall.pc \in {"idle", "do"}
  /\ \E cpu \in CPUs :
       /\ IF upcall.pc = "do" THEN cpu = upcall.cpu
                              ELSE evtchn_upcall_pending[cpu]
       /\ xed_nesting_count' = [xed_nesting_count EXCEPT ![cpu] = @ + 1]
       /\ UNCHANGED <<current_word_idx, current_bit_idx>>
       /\ LET s1 == [Cur EXCEPT !.evtchn_upcall_pending[cpu] = FALSE]
          IN  IF xed_nesting_count[cpu] # 0
              THEN /\ UpcallStep(s1)
                   /\ upcall' = IdleFrame
                   /\ UNCHANGED <<entry, dispatched>>
              ELSE /\ UpcallStep([s1 EXCEPT !.evtchn_pending_sel[cpu] = {}])
                   /\ upcall' =
                        [IdleFrame EXCEPT
                           !.pc = "for", !.cpu = cpu,
                           !.pending_words = evtchn_pending_sel[cpu],
                           !.start_word_idx = current_word_idx[cpu],
                           !.start_bit_idx = current_bit_idx[cpu],
                           !.word_idx = current_word_idx[cpu]]
                   /\ entry' =
                        [evtchn_pending |-> evtchn_pending,
                         evtchn_mask |-> evtchn_mask,
                         cpu_evtchn_mask |-> cpu_evtchn_mask[cpu],
                         evtchn_pending_sel |-> evtchn_pending_sel[cpu]]
                   /\ dispatched' = <<>>

\* The head of the for loop: it ends when no word is left, wraps when none is
\* left from word_idx upwards, and else takes the lowest such word.
ScanWord ==
  /\ upcall.pc = "for"
  /\ LET f == upcall
         words == MASK_LSBS(f.pending_words, f.word_idx)
     IN  upcall' =
           IF f.pending_words = {} THEN [f EXCEPT !.pc = "exit"]
           ELSE IF words = {}
           THEN [f EXCEPT !.word_idx = 0, !.bit_idx = 0, !.i = @ + 1]
           ELSE [f EXCEPT
                   !.word_idx = ffs(words),
                   !.pending_bits = active_bits(Cur, f.cpu, ffs(words)),
                   !.bit_idx = scan_start_bit(f.i, ffs(words), f.start_word_idx,
                                              f.start_bit_idx),
                   !.pc = "bit"]
  /\ UpcallStep(Cur)
  /\ UNCHANGED <<xed_nesting_count, current_word_idx, current_bit_idx, entry,
                 dispatched>>

\* One turn of the inner do loop: the lowest bit left is masked, cleared and
\* handed to its irq, and the cursor is moved behind it.
ScanPort ==
  /\ upcall.pc = "bit"
  /\ LET f == upcall
         bits == MASK_LSBS(f.pending_bits, f.bit_idx)
     IN  IF bits = {}
         THEN /\ upcall' = [f EXCEPT !.pc = "next"]
              /\ UpcallStep(Cur)
              /\ UNCHANGED <<xed_nesting_count, current_word_idx,
                             current_bit_idx, entry, dispatched>>
         ELSE \E disabled \in BOOLEAN :
                LET b == ffs(bits)
                    port == (f.word_idx * BITS_PER_LONG) + b
                    irq == evtchn_to_irq[port]
                    s1 == clear_evtchn(mask_evtchn(Cur, port), port)
                    s2 == IF irq # -1 /\ irq_chip[irq] # "NULL"
                          THEN generic_handle_irq_desc(s1, irq, disabled, f.cpu)
                          ELSE s1
                    nb == (b + 1) % BITS_PER_LONG
                IN  /\ UpcallStep(s2)
                    /\ current_word_idx' =
                         [current_word_idx EXCEPT ![f.cpu] =
                            next_word_idx(f.word_idx, nb)]
                    /\ current_bit_idx' = [current_bit_idx EXCEPT ![f.cpu] = nb]
                    /\ upcall' = [f EXCEPT !.bit_idx = nb,
                                           !.pc = IF nb # 0 THEN "bit" ELSE "next"]
                    /\ dispatched' = Append(dispatched, port)
                    /\ UNCHANGED <<xed_nesting_count, entry>>

\* The end of the for loop's body: every word but the starting word on its
\* first visit is done with, and the next word is looked at.
ScanNextWord ==
  /\ upcall.pc = "next"
  /\ LET f == upcall
     IN  upcall' =
           [f EXCEPT
              !.pending_words = words_left(@, f.word_idx, f.start_word_idx,
                                           f.i),
              !.word_idx = (f.word_idx + 1) % BITS_PER_LONG,
              !.i = @ + 1,
              !.pc = "for"]
  /\ UpcallStep(Cur)
  /\ UNCHANGED <<xed_nesting_count, current_word_idx, current_bit_idx, entry,
                 dispatched>>

\* A faulty end of the do loop: it goes round again only if an upcall is
\* due, whatever xed_nesting_count says.
UpcallEndFlagOnly ==
  /\ upcall.pc = "exit"
  /\ upcall' = IF evtchn_upcall_pending[upcall.cpu]
                THEN [IdleFrame EXCEPT !.pc = "do", !.cpu = upcall.cpu]
                ELSE IdleFrame
  /\ xed_nesting_count' = [xed_nesting_count EXCEPT ![upcall.cpu] = 0]
  /\ UpcallStep(Cur)
  /\ UNCHANGED <<current_word_idx, current_bit_idx, entry, dispatched>>

\* The end of the do loop: it goes round again if an upcall nested or one is
\* due, and else returns.
UpcallEnd ==
  /\ upcall.pc = "exit"
  /\ LET count == xed_nesting_count[upcall.cpu]
     IN  upcall' = IF count # 1 \/ evtchn_upcall_pending[upcall.cpu]
                   THEN [IdleFrame EXCEPT !.pc = "do", !.cpu = upcall.cpu]
                   ELSE IdleFrame
  /\ xed_nesting_count' = [xed_nesting_count EXCEPT ![upcall.cpu] = 0]
  /\ UpcallStep(Cur)
  /\ UNCHANGED <<current_word_idx, current_bit_idx, entry, dispatched>>

NextScan ==
  \/ UpcallBegin
  \/ ScanWord
  \/ ScanPort
  \/ ScanNextWord
  \/ UpcallEnd

SpecScan == InitScan /\ [][NextScan]_vars

\* The cpu goes on running the upcall and the handlers return.
SpecScanFair == SpecScan /\ WF_vars(NextScan)

(* ------------------------------------------------------------------ *)
(* The upcall with the hypervisor raising events, the IRQ core         *)
(* unmasking irqs and upcalls nesting while a pass runs.               *)
(* ------------------------------------------------------------------ *)
\* Inter-domain channels are bound with handlers and unmasked; the
\* hypervisor has every port open (a port not in evtchn_to_irq is one whose
\* binding is not installed); nothing is pending.
InitLive ==
  \E owner \in PortOwners, w0 \in Words, b0 \in Bits :
    LET bound == {p \in Ports \ {0} : owner[p] # -1}
        irqs == {PortIrq(p) : p \in bound}
        port(irq) == nr_irqs - irq
    IN  /\ irq_info = [irq \in Irqs |->
                         IF irq \in irqs
                         THEN [mk_evtchn_info(port(irq))
                                 EXCEPT !.cpu = owner[port(irq)]]
                         ELSE mk_unbound_info]
        /\ evtchn_to_irq = [p \in Ports |->
                              IF p \in bound THEN PortIrq(p) ELSE -1]
        /\ cpu_evtchn_mask =
             [c \in CPUs |-> {p \in Ports : IF p \in bound THEN owner[p] = c
                                                            ELSE c = 0}]
        /\ virq_to_irq = [c \in CPUs |-> [v \in Virqs |-> -1]]
        /\ ipi_to_irq = [c \in CPUs |-> [i \in Ipis |-> -1]]
        /\ irq_chip = [irq \in Irqs |->
                         IF irq \in irqs THEN "xen_dynamic_chip"
                         ELSE IF irq < get_nr_hw_irqs THEN "no_irq_chip"
                                                      ELSE "NULL"]
        /\ irq_action = [irq \in Irqs |->
                           IF irq \in irqs THEN "plain" ELSE "NULL"]
        /\ evtchn_pending = {}
        /\ evtchn_mask = {0}
        /\ evtchn_pending_sel = [c \in CPUs |-> {}]
        /\ evtchn_upcall_pending = [c \in CPUs |-> FALSE]
        /\ pirq_needs_eoi_bits = {}
        /\ pirq_eoi_does_unmask = FALSE
        /\ xen_initial_domain = FALSE
        /\ hv_ports = Ports \ {0}
        /\ fatal = FALSE
        /\ hc = <<>>
        /\ last = [op |-> "xen_init_IRQ", irq |-> -1, evtchn |-> 0, cpu |-> 0,
                   idx |-> 0, hv |-> 0, rq |-> 0, ret |-> 0]
        /\ nops = 0
        /\ xed_nesting_count = [c \in CPUs |-> 0]
        /\ current_word_idx = [c \in CPUs |-> w0]
        /\ current_bit_idx = [c \in CPUs |-> b0]
        /\ upcall = IdleFrame
        /\ entry = NoEntry
        /\ dispatched = <<>>
        /\ irq_mapping_update_lock = -1
        /\ writer = NoWriter
        /\ reader = NoReader

\* The hypervisor raises an event on an open port that is not pending.
EvtchnSetPending ==
  /\ Running
  /\ \E port \in hv_ports \ evtchn_pending :
       Apply(HvSetPending(Cur, port), "evtchn_set_pending", -1, port,
             cpu_from_evtchn(Cur, port), 0, 0, 0)

\* The IRQ core unmasks a masked irq on some cpu (enable_irq): chip->unmask.
UnmaskIrq ==
  /\ Running
  /\ \E irq \in Irqs, cpu \in CPUs :
       /\ irq_chip[irq] = "xen_dynamic_chip"
       /\ evtchn_from_irq(Cur, irq) \in evtchn_mask
       /\ Apply(unmask_irq(Cur, irq, cpu), "unmask_irq", irq,
                evtchn_from_irq(Cur, irq), cpu, 0, 0, 0)

\* An upcall arrives on the cpu while its pass runs (a handler has enabled
\* interrupts): it clears the upcall flag, finds xed_nesting_count non-zero,
\* counts itself and leaves.
UpcallNested ==
  /\ ~fatal
  /\ upcall.pc \in {"for", "bit", "clear", "handle", "next"}
  /\ evtchn_upcall_pending[upcall.cpu]
  /\ xed_nesting_count[upcall.cpu] # 0
  /\ xed_nesting_count' = [xed_nesting_count EXCEPT ![upcall.cpu] = @ + 1]
  /\ UpcallStep([Cur EXCEPT !.evtchn_upcall_pending[upcall.cpu] = FALSE])
  /\ UNCHANGED <<current_word_idx, current_bit_idx, upcall, entry, dispatched>>

NextLive ==
  \/ UpcallBegin
  \/ ScanWord
  \/ ScanPort
  \/ ScanNextWord
  \/ UpcallEnd
  \/ UpcallNested
  \/ EvtchnSetPending
  \/ UnmaskIrq

SpecLive == InitLive /\ [][NextLive]_vars

(* ------------------------------------------------------------------ *)
(* The inner do loop statement by statement: the hypervisor and the    *)
(* IRQ core on other cpus act between mask_evtchn, clear_evtchn and    *)
(* the handler.                                                        *)
(* ------------------------------------------------------------------ *)
\* A faulty first statement: the port is cleared, and not masked.
ScanMaskEvtchnClears ==
  /\ upcall.pc = "bit"
  /\ LET f == upcall
         bits == MASK_LSBS(f.pending_bits, f.bit_idx)
     IN  IF bits = {}
         THEN /\ upcall' = [f EXCEPT !.pc = "next"]
              /\ UpcallStep(Cur)
         ELSE LET port == (f.word_idx * BITS_PER_LONG) + ffs(bits)
              IN  /\ upcall' = [f EXCEPT !.bit_idx = ffs(bits), !.pc = "clear"]
                  /\ UpcallStep(clear_evtchn(Cur, port))
  /\ UNCHANGED <<xed_nesting_count, current_word_idx, current_bit_idx, entry,
                 dispatched>>

\* The head of the inner do loop up to mask_evtchn(port): the loop is left
\* when no bit is left, and else the lowest bit left is masked.
ScanMaskEvtchn ==
  /\ upcall.pc = "bit"
  /\ LET f == upcall
         bits == MASK_LSBS(f.pending_bits, f.bit_idx)
     IN  IF bits = {}
         THEN /\ upcall' = [f EXCEPT !.pc = "next"]
              /\ UpcallStep(Cur)
         ELSE LET port == (f.word_idx * BITS_PER_LONG) + ffs(bits)
              IN  /\ upcall' = [f EXCEPT !.bit_idx = ffs(bits), !.pc = "clear"]
                  /\ UpcallStep(mask_evtchn(Cur, port))
  /\ UNCHANGED <<xed_nesting_count, current_word_idx, current_bit_idx, entry,
                 dispatched>>

\* clear_evtchn(port).
ScanClearEvtchn ==
  /\ upcall.pc = "clear"
  /\ upcall' = [upcall EXCEPT !.pc = "handle"]
  /\ UpcallStep(clear_evtchn(Cur, (upcall.word_idx * BITS_PER_LONG) +
                                    upcall.bit_idx))
  /\ UNCHANGED <<xed_nesting_count, current_word_idx, current_bit_idx, entry,
                 dispatched>>

\* The rest of the turn: the port is handed to its irq and the cursor is
\* moved behind it.
ScanHandleIrq ==
  /\ upcall.pc = "handle"
  /\ \E disabled \in BOOLEAN :
       LET f == upcall
           port == (f.word_idx * BITS_PER_LONG) + f.bit_idx
           irq == evtchn_to_irq[port]
           s2 == IF irq # -1 /\ irq_chip[irq] # "NULL"
                 THEN generic_handle_irq_desc(Cur, irq, disabled, f.cpu)
                 ELSE Cur
           nb == (f.bit_idx + 1) % BITS_PER_LONG
       IN  /\ UpcallStep(s2)
           /\ current_word_idx' =
                [current_word_idx EXCEPT ![f.cpu] =
                   next_word_idx(f.word_idx, nb)]
           /\ current_bit_idx' = [current_bit_idx EXCEPT ![f.cpu] = nb]
           /\ upcall' = [f EXCEPT !.bit_idx = nb,
                                  !.pc = IF nb # 0 THEN "bit" ELSE "next"]
           /\ dispatched' = Append(dispatched, port)
           /\ UNCHANGED <<xed_nesting_count, entry>>

NextDispatch ==
  \/ UpcallBegin
  \/ ScanWord
  \/ ScanMaskEvtchn
  \/ ScanClearEvtchn
  \/ ScanHandleIrq
  \/ ScanNextWord
  \/ UpcallEnd
  \/ UpcallNested
  \/ EvtchnSetPending
  \/ UnmaskIrq
  \/ RetriggerIrq

\* The channels of InitLive, with every cpu's cursor where its definition
\* leaves it: at word 0, bit 0.
InitDispatch ==
  /\ InitLive
  /\ current_word_idx = [c \in CPUs |-> 0]
  /\ current_bit_idx = [c \in CPUs |-> 0]

SpecDispatch == InitDispatch /\ [][NextDispatch]_vars

(* ------------------------------------------------------------------ *)
(* The writers statement by statement, with irq_mapping_update_lock,   *)
(* and a lookup on another cpu that takes no lock.                     *)
(* ------------------------------------------------------------------ *)
\* The calls of writers a run follows.
MaxCalls == 2

\* A statement of a writer has run: the state it leaves, and whether the
\* writer holds irq_mapping_update_lock after it.
Stmt(s, held) == [s |-> s, held |-> held]

\* BUG() and panic() end the call.
Cut(stmts) ==
  LET bad == {i \in 1 .. Len(stmts) : stmts[i].s.fatal}
  IN  IF bad = {} THEN stmts
      ELSE SubSeq(stmts, 1, CHOOSE i \in bad : \A j \in bad : i <= j)

\* bind_evtchn_to_irq: spin_lock; the lookup and find_unbound_irq with
\* set_irq_chip_and_handler_name; the store to evtchn_to_irq; the store to
\* irq_info; spin_unlock.
bind_evtchn_to_irq_stmts(s, evtchn) ==
  LET irq == s.evtchn_to_irq[evtchn]
      s1 == find_unbound_irq(s)
  IN  IF irq # -1
      THEN <<Stmt(s, TRUE), Stmt(Return(s, irq), FALSE)>>
      ELSE IF s1.fatal
      THEN <<Stmt(s, TRUE), Stmt(s1, TRUE)>>
      ELSE LET n == s1.ret
               s2 == set_irq_chip(s1, n, "xen_dynamic_chip")
               s3 == [s2 EXCEPT !.evtchn_to_irq[evtchn] = n]
               s4 == [s3 EXCEPT !.irq_info[n] = mk_evtchn_info(evtchn)]
           IN  <<Stmt(s, TRUE), Stmt(s2, TRUE), Stmt(s3, TRUE),
                 Stmt(s4, TRUE), Stmt(Return(s4, n), FALSE)>>

\* bind_virq_to_irq: spin_lock; lookup, find_unbound_irq, chip and
\* EVTCHNOP_bind_virq; the stores to evtchn_to_irq, irq_info and virq_to_irq;
\* bind_evtchn_to_cpu; spin_unlock.
bind_virq_to_irq_stmts(s, virq, cpu, hv) ==
  LET irq == s.virq_to_irq[cpu][virq]
      s1 == find_unbound_irq(s)
  IN  IF irq # -1
      THEN <<Stmt(s, TRUE), Stmt(Return(s, irq), FALSE)>>
      ELSE IF s1.fatal
      THEN <<Stmt(s, TRUE), Stmt(s1, TRUE)>>
      ELSE LET n == s1.ret
               s2 == Hypercall(set_irq_chip(s1, n, "xen_percpu_chip"),
                               <<"EVTCHNOP_bind_virq", virq, cpu>>)
           IN  IF hv < 0
               THEN <<Stmt(s, TRUE), Stmt(BUG(s2), TRUE)>>
               ELSE
                 LET s3 == [HvOpen(s2, hv) EXCEPT !.evtchn_to_irq[hv] = n]
                     s4 == [s3 EXCEPT !.irq_info[n] = mk_virq_info(hv, virq)]
                     s5 == [s4 EXCEPT !.virq_to_irq[cpu][virq] = n]
                     s6 == bind_evtchn_to_cpu(s5, hv, cpu)
                 IN  Cut(<<Stmt(s, TRUE), Stmt(HvOpen(s2, hv), TRUE),
                           Stmt(s3, TRUE), Stmt(s4, TRUE), Stmt(s5, TRUE),
                           Stmt(s6, TRUE), Stmt(Return(s6, n), FALSE)>>)

\* bind_ipi_to_irq, likewise.
bind_ipi_to_irq_stmts(s, ipi, cpu, hv) ==
  LET irq == s.ipi_to_irq[cpu][ipi]
      s1 == find_unbound_irq(s)
  IN  IF irq # -1
      THEN <<Stmt(s, TRUE), Stmt(Return(s, irq), FALSE)>>
      ELSE IF s1.fatal
      THEN <<Stmt(s, TRUE), Stmt(s1, TRUE)>>
      ELSE LET n == s1.ret
               s2 == Hypercall(set_irq_chip(s1, n, "xen_percpu_chip"),
                               <<"EVTCHNOP_bind_ipi", cpu>>)
           IN  IF hv < 0
               THEN <<Stmt(s, TRUE), Stmt(BUG(s2), TRUE)>>
               ELSE
                 LET s3 == [HvOpen(s2, hv) EXCEPT !.evtchn_to_irq[hv] = n]
                     s4 == [s3 EXCEPT !.irq_info[n] = mk_ipi_info(hv, ipi)]
                     s5 == [s4 EXCEPT !.ipi_to_irq[cpu][ipi] = n]
                     s6 == bind_evtchn_to_cpu(s5, hv, cpu)
                 IN  Cut(<<Stmt(s, TRUE), Stmt(HvOpen(s2, hv), TRUE),
                           Stmt(s3, TRUE), Stmt(s4, TRUE), Stmt(s5, TRUE),
                           Stmt(s6, TRUE), Stmt(Return(s6, n), FALSE)>>)

\* unbind_from_irq: the port is read, then spin_lock; for a valid port
\* EVTCHNOP_close, the per-cpu table entry, bind_evtchn_to_cpu(evtchn, 0) and
\* the store of -1 to evtchn_to_irq; then the store to irq_info with
\* dynamic_irq_cleanup; spin_unlock.
unbind_from_irq_stmts(s, irq) ==
  LET evtchn == evtchn_from_irq(s, irq)
      s1 == Hypercall(s, <<"EVTCHNOP_close", evtchn>>)
      s2 == unbind_percpu_entry(HvClose(s1, evtchn), irq, evtchn)
      s3 == bind_evtchn_to_cpu(s2, evtchn, 0)
      s4 == [s3 EXCEPT !.evtchn_to_irq[evtchn] = -1]
      closed == IF ~VALID_EVTCHN(evtchn) THEN << >>
                ELSE IF evtchn \notin s1.hv_ports THEN <<Stmt(BUG(s1), TRUE)>>
                ELSE <<Stmt(HvClose(s1, evtchn), TRUE), Stmt(s2, TRUE),
                       Stmt(s3, TRUE), Stmt(s4, TRUE)>>
      s5 == IF closed = << >> THEN s ELSE closed[Len(closed)].s
      s6 == [s5 EXCEPT !.irq_info[irq] = mk_unbound_info]
      freed == IF s5.irq_info[irq].type # "IRQT_UNBOUND"
               THEN <<Stmt(s6, TRUE), Stmt(dynamic_irq_cleanup(s6, irq), TRUE)>>
               ELSE << >>
      s7 == IF freed = << >> THEN s5 ELSE freed[Len(freed)].s
  IN  Cut(<<Stmt(s, TRUE)>> \o closed \o freed \o <<Stmt(s7, FALSE)>>)

\* startup_pirq on `cpu`: no lock is taken.  EVTCHNOP_bind_pirq and
\* pirq_query_unmask; the store to evtchn_to_irq; bind_evtchn_to_cpu; the
\* store to info->evtchn; pirq_eoi.
startup_pirq_stmts(s, irq, hv, needs, cpu) ==
  LET info == s.irq_info[irq]
      evtchn == evtchn_from_irq(s, irq)
      s1 == Hypercall(s, <<"EVTCHNOP_bind_pirq", info.gsi, info.flags>>)
      s2 == pirq_query_unmask(HvOpen(s1, hv), irq, needs)
      s3 == [s2 EXCEPT !.evtchn_to_irq[hv] = irq]
      s4 == bind_evtchn_to_cpu(s3, hv, 0)
      s5 == [s4 EXCEPT !.irq_info[irq].evtchn = hv]
  IN  IF info.type # "IRQT_PIRQ" THEN <<Stmt(BUG(s), FALSE)>>
      ELSE IF VALID_EVTCHN(evtchn)
      THEN <<Stmt(Return(pirq_eoi(s, irq, cpu), 0), FALSE)>>
      ELSE IF hv < 0 THEN <<Stmt(Return(s1, 0), FALSE)>>
      ELSE Cut(<<Stmt(s2, FALSE), Stmt(s3, FALSE), Stmt(s4, FALSE),
                 Stmt(s5, FALSE),
                 Stmt(Return(pirq_eoi(s5, irq, cpu), 0), FALSE)>>)

\* shutdown_pirq: no lock is taken.  mask_evtchn and EVTCHNOP_close;
\* bind_evtchn_to_cpu(evtchn, 0); the store of -1 to evtchn_to_irq; the store
\* of 0 to info->evtchn.
shutdown_pirq_stmts(s, irq) ==
  LET info == s.irq_info[irq]
      evtchn == evtchn_from_irq(s, irq)
      s1 == Hypercall(mask_evtchn(s, evtchn), <<"EVTCHNOP_close", evtchn>>)
      s2 == bind_evtchn_to_cpu(HvClose(s1, evtchn), evtchn, 0)
      s3 == [s2 EXCEPT !.evtchn_to_irq[evtchn] = -1]
      s4 == [s3 EXCEPT !.irq_info[irq].evtchn = 0]
  IN  IF info.type # "IRQT_PIRQ" THEN <<Stmt(BUG(s), FALSE)>>
      ELSE IF ~VALID_EVTCHN(evtchn) THEN <<Stmt(s, FALSE)>>
      ELSE IF evtchn \notin s1.hv_ports THEN <<Stmt(BUG(s1), FALSE)>>
      ELSE Cut(<<Stmt(HvClose(s1, evtchn), FALSE), Stmt(s2, FALSE),
                 Stmt(s3, FALSE), Stmt(s4, FALSE)>>)

\* rebind_irq_to_cpu: no lock is taken.  EVTCHNOP_bind_vcpu, then
\* bind_evtchn_to_cpu when the hypervisor agreed.
rebind_irq_to_cpu_stmts(s, irq, tcpu, hv_ok) ==
  LET evtchn == evtchn_from_irq(s, irq)
      s1 == Hypercall(s, <<"EVTCHNOP_bind_vcpu", evtchn, tcpu>>)
  IN  IF ~VALID_EVTCHN(evtchn) THEN <<Stmt(Return(s, -1), FALSE)>>
      ELSE IF ~hv_ok THEN <<Stmt(Return(s1, 0), FALSE)>>
      ELSE Cut(<<Stmt(s1, FALSE),
                 Stmt(Return(bind_evtchn_to_cpu(s1, evtchn, tcpu), 0),
                      FALSE)>>)

\* One pass of the loop of restore_cpu_virqs: the hypercall, the store to
\* evtchn_to_irq, the store to irq_info, bind_evtchn_to_cpu.
restore_cpu_virq_stmts(s, cpu, virq, hv) ==
  LET irq == s.virq_to_irq[cpu][virq]
      info == s.irq_info[irq]
      s1 == Hypercall(s, <<"EVTCHNOP_bind_virq", virq, cpu>>)
      s2 == [HvOpen(s1, hv) EXCEPT !.evtchn_to_irq[hv] = irq]
      s3 == [s2 EXCEPT !.irq_info[irq] = mk_virq_info(hv, virq)]
  IN  IF info.type # "IRQT_VIRQ" \/ info.virq # virq
      THEN <<Stmt(BUG(s), FALSE)>>
      ELSE IF hv < 0 THEN <<Stmt(BUG(s1), FALSE)>>
      ELSE <<Stmt(HvOpen(s1, hv), FALSE), Stmt(s2, FALSE), Stmt(s3, FALSE),
             Stmt(bind_evtchn_to_cpu(s3, hv, cpu), FALSE)>>

\* One pass of the loop of restore_cpu_ipis.
restore_cpu_ipi_stmts(s, cpu, ipi, hv) ==
  LET irq == s.ipi_to_irq[cpu][ipi]
      info == s.irq_info[irq]
      s1 == Hypercall(s, <<"EVTCHNOP_bind_ipi", cpu>>)
      s2 == [HvOpen(s1, hv) EXCEPT !.evtchn_to_irq[hv] = irq]
      s3 == [s2 EXCEPT !.irq_info[irq] = mk_ipi_info(hv, ipi)]
  IN  IF info.type # "IRQT_IPI" \/ info.ipi # ipi
      THEN <<Stmt(BUG(s), FALSE)>>
      ELSE IF hv < 0 THEN <<Stmt(BUG(s1), FALSE)>>
      ELSE <<Stmt(HvOpen(s1, hv), FALSE), Stmt(s2, FALSE), Stmt(s3, FALSE),
             Stmt(bind_evtchn_to_cpu(s3, hv, cpu), FALSE)>>

\* for_each_possible_cpu(cpu) { restore_cpu_virqs(cpu); restore_cpu_ipis(cpu); }
\* from entry i on.
RECURSIVE restore_percpu_stmts(_, _, _)
restore_percpu_stmts(s, i, alloc) ==
  IF i > NrPercpuEntries \/ s.fatal THEN << >>
  ELSE IF ~EntryBound(s, i) THEN restore_percpu_stmts(s, i + 1, alloc)
  ELSE LET hv == IF alloc = << >> THEN -22 ELSE Head(alloc)
           rest == IF alloc = << >> THEN << >> ELSE Tail(alloc)
           pass == IF EntryIdx(i) < NR_VIRQS
                   THEN restore_cpu_virq_stmts(s, EntryCpu(i), EntryIdx(i), hv)
                   ELSE restore_cpu_ipi_stmts(s, EntryCpu(i),
                                              EntryIdx(i) - NR_VIRQS, hv)
       IN  pass \o restore_percpu_stmts(pass[Len(pass)].s, i + 1, rest)

\* xen_irq_resume on `cpu`: no lock is taken.  init_evtchn_cpu_bindings; every
\* port is masked; every irq_info's port is set to 0; evtchn_to_irq is
\* cleared; the per-cpu bindings are restored; the IRQF_NO_SUSPEND irqs are
\* unmasked; PHYSDEVOP_pirq_eoi_gmfn.
xen_irq_resume_stmts(s, alloc, gmfn_ok, cpu) ==
  LET s1 == init_evtchn_cpu_bindings(s)
      s2 == [s1 EXCEPT !.evtchn_mask = Ports]
      s3 == [s2 EXCEPT !.irq_info =
                          [irq \in Irqs |-> [s2.irq_info[irq] EXCEPT !.evtchn = 0]]]
      s4 == [s3 EXCEPT !.evtchn_to_irq = [p \in Ports |-> -1]]
      restored == restore_percpu_stmts(s4, 1, alloc)
      s5 == IF restored = << >> THEN s4 ELSE restored[Len(restored)].s
      s6 == resume_unmask(s5, 0, cpu)
      s7 == Hypercall(s6, <<"PHYSDEVOP_pirq_eoi_gmfn">>)
  IN  Cut(<<Stmt(s1, FALSE), Stmt(s2, FALSE), Stmt(s3, FALSE),
            Stmt(s4, FALSE)>> \o restored \o
          <<Stmt(s6, FALSE)>> \o
          (IF s6.pirq_eoi_does_unmask
           THEN <<Stmt(IF gmfn_ok THEN s7 ELSE BUG(s7), FALSE)>>
           ELSE << >>))

\* A non-privileged guest after xen_init_IRQ, xen_allocate_pirq(0, 0, ...) and
\* bind_virq_to_irq(0, 0), which got port 1: irq 0 is a pirq that has not
\* been started up, the highest irq is the boot cpu's timer virq.
InitWriters ==
  LET b == bind_virq_to_irq(
             [xen_allocate_pirq(Boot, 0, FALSE, 0) EXCEPT !.hc = << >>],
             0, 0, 1)
  IN  /\ irq_info = b.irq_info
      /\ evtchn_to_irq = b.evtchn_to_irq
      /\ cpu_evtchn_mask = b.cpu_evtchn_mask
      /\ virq_to_irq = b.virq_to_irq
      /\ ipi_to_irq = b.ipi_to_irq
      /\ irq_chip = b.irq_chip
      /\ irq_action = b.irq_action
      /\ evtchn_pending = b.evtchn_pending
      /\ evtchn_mask = b.evtchn_mask
      /\ evtchn_pending_sel = b.evtchn_pending_sel
      /\ evtchn_upcall_pending = b.evtchn_upcall_pending
      /\ pirq_needs_eoi_bits = b.pirq_needs_eoi_bits
      /\ pirq_eoi_does_unmask = b.pirq_eoi_does_unmask
      /\ xen_initial_domain = b.xen_initial_domain
      /\ hv_ports = b.hv_ports
      /\ fatal = b.fatal
      /\ hc = b.hc
      /\ last = [op |-> "bind_virq_to_irq", irq |-> -1, evtchn |-> 0,
                 cpu |-> 0, idx |-> 0, hv |-> 1, rq |-> 0, ret |-> b.ret]
      /\ nops = 0
      /\ xed_nesting_count = [c \in CPUs |-> 0]
      /\ current_word_idx = [c \in CPUs |-> 0]
      /\ current_bit_idx = [c \in CPUs |-> 0]
      /\ upcall = IdleFrame
      /\ entry = NoEntry
      /\ dispatched = <<>>
      /\ irq_mapping_update_lock = -1
      /\ writer = NoWriter
      /\ reader = NoReader

\* No call of a writer is under way.
WriterIdle == writer.pc > Len(writer.stmts)

\* The cpus a call may run on while a lookup is under way on reader.cpu.
WriterCpus == IF reader.pc = "idle" THEN CPUs ELSE CPUs \ {reader.cpu}

\* A writer is entered on `cpu` with these arguments and answers; stmts are
\* the statements it will run.
Enter(stmts, op, irq, evtchn, cpu, idx, hv) ==
  /\ writer' = [op |-> op, cpu |-> cpu, pc |-> 1, stmts |-> stmts]
  /\ last' = [op |-> op, irq |-> irq, evtchn |-> evtchn, cpu |-> cpu,
              idx |-> idx, hv |-> hv, rq |-> 0, ret |-> 0]
  /\ nops' = nops + 1
  /\ UNCHANGED <<tables, irq_chip, irq_action, evtchn_pending, evtchn_mask,
                 evtchn_pending_sel, evtchn_upcall_pending,
                 pirq_needs_eoi_bits, pirq_eoi_does_unmask,
                 xen_initial_domain, hv_ports, fatal, hc, scanvars,
                 irq_mapping_update_lock, reader>>

\* A call may start.
MayEnter == ~fatal /\ WriterIdle /\ nops < MaxCalls

EnterBindEvtchnToIrq ==
  /\ MayEnter
  /\ \E evtchn \in BindablePorts, cpu \in WriterCpus :
       Enter(bind_evtchn_to_irq_stmts(HvOpen(Cur, evtchn), evtchn),
             "bind_evtchn_to_irq", -1, evtchn, cpu, 0, 0)

EnterBindVirqToIrq ==
  /\ MayEnter
  /\ \E virq \in Virqs, vcpu \in CPUs, hv \in HvAnswers, cpu \in WriterCpus :
       Enter(bind_virq_to_irq_stmts(Cur, virq, vcpu, hv),
             "bind_virq_to_irq", -1, 0, cpu, virq, hv)

EnterBindIpiToIrq ==
  /\ MayEnter
  /\ \E ipi \in Ipis, vcpu \in CPUs, hv \in HvAnswers, cpu \in WriterCpus :
       Enter(bind_ipi_to_irq_stmts(Cur, ipi, vcpu, hv),
             "bind_ipi_to_irq", -1, 0, cpu, ipi, hv)

EnterUnbindFromIrq ==
  /\ MayEnter
  /\ \E irq \in Irqs, cpu \in WriterCpus :
       /\ irq_info[irq].type # "IRQT_UNBOUND"
       /\ Enter(unbind_from_irq_stmts(Cur, irq),
                "unbind_from_irq", irq, 0, cpu, 0, 0)

EnterStartupPirq ==
  /\ MayEnter
  /\ \E irq \in Irqs, hv \in HvAnswers, needs \in BOOLEAN,
        cpu \in WriterCpus :
       /\ irq_chip[irq] = "xen_pirq_chip"
       /\ Enter(startup_pirq_stmts(Cur, irq, hv, needs, cpu),
                "startup_pirq", irq, 0, cpu, 0, hv)

EnterShutdownPirq ==
  /\ MayEnter
  /\ \E irq \in Irqs, cpu \in WriterCpus :
       /\ irq_chip[irq] = "xen_pirq_chip"
       /\ Enter(shutdown_pirq_stmts(Cur, irq),
                "shutdown_pirq", irq, 0, cpu, 0, 0)

EnterSetAffinityIrq ==
  /\ MayEnter
  /\ \E irq \in Irqs, tcpu \in CPUs, hv_ok \in BOOLEAN, cpu \in WriterCpus :
       /\ has_set_affinity(irq_chip[irq])
       /\ Enter(rebind_irq_to_cpu_stmts(Cur, irq, tcpu, hv_ok),
                "set_affinity_irq", irq, 0, cpu, tcpu,
                IF hv_ok THEN 0 ELSE -22)

\* xen_irq_resume runs while no lookup is under way.
EnterXenIrqResume ==
  /\ MayEnter
  /\ reader.pc = "idle"
  /\ \E gmfn_ok \in BOOLEAN, cpu \in CPUs :
       Enter(xen_irq_resume_stmts(HvInvalidate(Cur), ResumeAlloc, gmfn_ok,
                                  cpu),
             "xen_irq_resume", -1, 0, cpu, 0, 0)

\* The writer runs its next statement; spin_lock takes the lock, spin_unlock
\* drops it.
WriterStep ==
  /\ ~fatal
  /\ ~WriterIdle
  /\ LET stmt == writer.stmts[writer.pc]
         r == stmt.s
     IN  /\ irq_info' = r.irq_info
         /\ evtchn_to_irq' = r.evtchn_to_irq
         /\ cpu_evtchn_mask' = r.cpu_evtchn_mask
         /\ virq_to_irq' = r.virq_to_irq
         /\ ipi_to_irq' = r.ipi_to_irq
         /\ irq_chip' = r.irq_chip
         /\ irq_action' = r.irq_action
         /\ evtchn_pending' = r.evtchn_pending
         /\ evtchn_mask' = r.evtchn_mask
         /\ evtchn_pending_sel' = r.evtchn_pending_sel
         /\ evtchn_upcall_pending' = r.evtchn_upcall_pending
         /\ pirq_needs_eoi_bits' = r.pirq_needs_eoi_bits
         /\ pirq_eoi_does_unmask' = r.pirq_eoi_does_unmask
         /\ xen_initial_domain' = r.xen_initial_domain
         /\ hv_ports' = r.hv_ports
         /\ fatal' = r.fatal
         /\ hc' = r.hc
         /\ last' = [last EXCEPT !.ret = r.ret]
         /\ irq_mapping_update_lock' = IF stmt.held THEN writer.cpu ELSE -1
         /\ writer' = [writer EXCEPT !.pc = @ + 1]
  /\ UNCHANGED <<nops, scanvars, reader>>

\* What a lookup leaves alone.
ReaderReads ==
  UNCHANGED <<tables, irq_chip, irq_action, evtchn_pending, evtchn_mask,
              evtchn_pending_sel, evtchn_upcall_pending, pirq_needs_eoi_bits,
              pirq_eoi_does_unmask, xen_initial_domain, hv_ports, fatal, hc,
              last, nops, scanvars, irq_mapping_update_lock, writer>>

\* A cpu other than the writer's reads evtchn_to_irq[port], as the upcall
\* does for a port it found deliverable, without the lock; it goes on when
\* the port has an irq.  No lookup runs during xen_irq_resume.
ReaderLoadMap ==
  /\ ~fatal
  /\ reader.pc = "idle"
  /\ WriterIdle \/ writer.op # "xen_irq_resume"
  /\ \E port \in Ports \ {0}, cpu \in CPUs :
       /\ WriterIdle \/ cpu # writer.cpu
       /\ evtchn_to_irq[port] # -1
       /\ reader' = [pc |-> "irq", cpu |-> cpu, port |-> port,
                     irq |-> evtchn_to_irq[port], info |-> mk_unbound_info]
  /\ ReaderReads

\* It then reads irq_info[irq], as the chip's ack does through
\* evtchn_from_irq.
ReaderLoadInfo ==
  /\ ~fatal
  /\ reader.pc = "irq"
  /\ reader' = [reader EXCEPT !.pc = "done", !.info = irq_info[reader.irq]]
  /\ ReaderReads

\* The lookup is over.
ReaderReturn ==
  /\ ~fatal
  /\ reader.pc = "done"
  /\ reader' = NoReader
  /\ ReaderReads

NextWriters ==
  \/ EnterBindEvtchnToIrq
  \/ EnterBindVirqToIrq
  \/ EnterBindIpiToIrq
  \/ EnterUnbindFromIrq
  \/ EnterStartupPirq
  \/ EnterShutdownPirq
  \/ EnterSetAffinityIrq
  \/ EnterXenIrqResume
  \/ WriterStep
  \/ ReaderLoadMap
  \/ ReaderLoadInfo
  \/ ReaderReturn

SpecWriters == InitWriters /\ [][NextWriters]_vars

(* ------------------------------------------------------------------ *)
(* Properties of the mapping tables.                                   *)
(* ------------------------------------------------------------------ *)
\* An operation has completed: the guest did not stop in BUG() or panic().
Completed == ~fatal

\* C1 (I2): after any sequence of completed operations, every irq whose
\* irq_info holds a non-zero port is the irq that evtchn_to_irq gives for
\* that port.
C1_PortMapsBack ==
  Completed =>
    \A irq \in Irqs :
      irq_info[irq].evtchn # 0 => evtchn_to_irq[irq_info[irq].evtchn] = irq

\* C1: resume has rebound a per-CPU irq to a port of the new port space.
C1_Witness ==
  /\ Completed
  /\ last.op = "xen_irq_resume"
  /\ \E irq \in Irqs : irq_info[irq].evtchn # 0

\* C2 (I1) as stated: an irq is Unbound if and only if its port is 0.
C2_UnboundIffNoPort ==
  Completed =>
    \A irq \in Irqs :
      (irq_info[irq].type = "IRQT_UNBOUND") <=> (irq_info[irq].evtchn = 0)

\* C2 as the code has it: an Unbound irq has port 0 and a Virq or Ipi irq
\* has a non-zero port; a Pirq has port 0 until it is started up, and Pirq
\* and inter-domain irqs have port 0 after resume until they are rebound.
C2_UnboundHasNoPort ==
  Completed =>
    \A irq \in Irqs :
      /\ irq_info[irq].type = "IRQT_UNBOUND" => irq_info[irq].evtchn = 0
      /\ irq_info[irq].type \in {"IRQT_VIRQ", "IRQT_IPI"}
           => irq_info[irq].evtchn # 0

\* C2: after resume a Virq irq has its new port and an inter-domain irq
\* has none.
C2_Witness ==
  /\ Completed
  /\ last.op = "xen_irq_resume"
  /\ \E irq \in Irqs :
       irq_info[irq].type = "IRQT_VIRQ" /\ irq_info[irq].evtchn # 0
  /\ \E irq \in Irqs :
       irq_info[irq].type = "IRQT_EVTCHN" /\ irq_info[irq].evtchn = 0

\* The CPUs whose mask holds the port.
MaskCpus(p) == {c \in CPUs : p \in cpu_evtchn_mask[c]}

\* C3 (P2, I4) as stated: a port is in exactly one CPU's mask if and only if
\* it is bound, and an unbound port is in no CPU's mask.
C3_MasksPartitionBound ==
  Completed =>
    \A p \in Ports :
      /\ (Cardinality(MaskCpus(p)) = 1) <=> (evtchn_to_irq[p] # -1)
      /\ evtchn_to_irq[p] = -1 => MaskCpus(p) = {}

\* C3 as the code has it: every port is in exactly one CPU's mask, and an
\* unbound port is in CPU 0's mask.
C3_MasksPartitionPorts ==
  Completed =>
    \A p \in Ports :
      /\ Cardinality(MaskCpus(p)) = 1
      /\ evtchn_to_irq[p] = -1 => MaskCpus(p) = {0}

\* C3: an unbind has sent a port back to CPU 0 while a bound port is in
\* another CPU's mask.
C3_Witness ==
  /\ Completed
  /\ last.op = "unbind_from_irqhandler"
  /\ \E p \in Ports : evtchn_to_irq[p] # -1 /\ MaskCpus(p) = {1}
  /\ \E p \in Ports \ {0} : evtchn_to_irq[p] = -1 /\ MaskCpus(p) = {0}

\* C4 (P3): every virq_to_irq entry names an irq of kind Virq with that cpu
\* and virq number, and every ipi_to_irq entry an irq of kind Ipi with that
\* cpu and ipi vector.
C4_PercpuEntriesMatch ==
  Completed =>
    \A cpu \in CPUs :
      /\ \A v \in Virqs :
           LET irq == virq_to_irq[cpu][v]
           IN  irq # -1 => /\ irq_info[irq].type = "IRQT_VIRQ"
                           /\ irq_info[irq].cpu = cpu
                           /\ irq_info[irq].virq = v
      /\ \A i \in Ipis :
           LET irq == ipi_to_irq[cpu][i]
           IN  irq # -1 => /\ irq_info[irq].type = "IRQT_IPI"
                           /\ irq_info[irq].cpu = cpu
                           /\ irq_info[irq].ipi = i

\* No entry of evtchn_to_irq, virq_to_irq or ipi_to_irq names the irq.
NoEntryNames(irq) ==
  /\ \A p \in Ports : evtchn_to_irq[p] # irq
  /\ \A c \in CPUs : \A v \in Virqs : virq_to_irq[c][v] # irq
  /\ \A c \in CPUs : \A i \in Ipis : ipi_to_irq[c][i] # irq

\* The operation's log holds the hypercall.
Issued(log, call) == \E k \in DOMAIN log : log[k] = call

\* C5 (P4): after unbind_from_irq(irq) the irq is Unbound, no entry of
\* evtchn_to_irq, virq_to_irq or ipi_to_irq names it, EVTCHNOP_close was
\* issued for the port it had, and that port is in CPU 0's mask only.
C5_UnbindClearsAll ==
  [][\A irq \in Irqs, port \in Ports :
       (/\ last'.op = "unbind_from_irqhandler"
        /\ last'.irq = irq
        /\ irq_info[irq].evtchn = port
        /\ ~fatal') =>
         /\ irq_info'[irq].type = "IRQT_UNBOUND"
         /\ NoEntryNames(irq)'
         /\ port # 0 => /\ Issued(hc', <<"EVTCHNOP_close", port>>)
                        /\ MaskCpus(port)' = {0}]_vars

\* C6: bind_virq_to_irq(v, cpu) without a binding for (cpu, v), answered by
\* the hypervisor with port p, returns an irq that was Unbound, and then
\* evtchn_to_irq[p] is the irq, its irq_info is {Virq, p, cpu, v},
\* virq_to_irq[cpu][v] is the irq and p is in cpu's mask and no other.
C6_BindVirqInstalls ==
  [][\A v \in Virqs, cpu \in CPUs, p \in Ports :
       (/\ last'.op = "bind_virq_to_irq"
        /\ last'.idx = v /\ last'.cpu = cpu /\ last'.hv = p
        /\ virq_to_irq[cpu][v] = -1
        /\ ~fatal') =>
         LET irq == last'.ret
         IN  /\ irq \in Irqs
             /\ irq_info[irq].type = "IRQT_UNBOUND"
             /\ evtchn_to_irq'[p] = irq
             /\ irq_info'[irq] = [mk_virq_info(p, v) EXCEPT !.cpu = cpu]
             /\ virq_to_irq'[cpu][v] = irq
             /\ MaskCpus(p)' = {cpu}]_vars

\* C6: a Virq was bound on a CPU other than CPU 0.
C6_Witness ==
  /\ Completed
  /\ last.op = "bind_virq_to_irq"
  /\ last.cpu = 1
  /\ last.hv > 0
  /\ last.ret \in Irqs
  /\ virq_to_irq[1][last.idx] = last.ret
  /\ irq_info[last.ret].evtchn = last.hv

\* The irq the constructor's lookup finds for the key, or -1.
BoundKey(op, cpu, idx, evtchn) ==
  CASE op = "bind_virq_to_irq" -> virq_to_irq[cpu][idx]
    [] op = "bind_ipi_to_irq" -> ipi_to_irq[cpu][idx]
    [] op = "bind_evtchn_to_irq" -> evtchn_to_irq[evtchn]
    [] op = "xen_allocate_pirq" -> find_irq_by_gsi(Cur, idx)
    [] OTHER -> -1

\* C7: a constructor called for a key that is already bound returns the irq
\* the key is bound to (the one the first call returned), issues no
\* hypercall, allocates no irq and leaves evtchn_to_irq, irq_info, the
\* per-CPU tables and the CPU masks unchanged.
C7_BindIdempotent ==
  [][LET key == BoundKey(last'.op, last'.cpu, last'.idx, last'.evtchn)
     IN  key # -1 =>
           /\ last'.ret = key
           /\ hc' = <<>>
           /\ ~fatal'
           /\ tables' = tables
           /\ irq_chip' = irq_chip
           /\ (/\ last.op = last'.op /\ last.cpu = last'.cpu
               /\ last.idx = last'.idx /\ last.evtchn = last'.evtchn
               /\ ~fatal)
                => last'.ret = last.ret]_vars

\* C7: the same constructor was called twice for the same key.
C7_Witness ==
  /\ Completed
  /\ last.op \in {"bind_virq_to_irq", "bind_ipi_to_irq", "bind_evtchn_to_irq",
                  "xen_allocate_pirq"}
  /\ BoundKey(last.op, last.cpu, last.idx, last.evtchn) = last.ret
  /\ last.ret \in Irqs
  /\ hc = <<>>
  /\ nops >= 2

\* The bind hypercall of the constructor that just ran failed.
BindHypercallFailed(l) ==
  /\ l.op \in {"bind_interdomain_evtchn_to_irq", "bind_virq_to_irq",
               "bind_ipi_to_irq", "xen_allocate_pirq"}
  /\ l.hv < 0

\* C8 as stated: when its bind hypercall fails, a constructor returns a
\* negative error, the tables are as before and the guest goes on.
C8_BindFailureReturnsError ==
  [][BindHypercallFailed(last') =>
       /\ ~fatal'
       /\ last'.ret < 0
       /\ tables' = tables]_vars

\* C8 as the code has it: a failed EVTCHNOP_bind_interdomain returns the
\* hypervisor's error and a failed PHYSDEVOP_alloc_irq_vector returns
\* -ENOSPC, the tables being as before; a failed EVTCHNOP_bind_virq or
\* EVTCHNOP_bind_ipi is a BUG(), so nothing is returned.
C8_BindFailureReturnsOrStops ==
  [][BindHypercallFailed(last') =>
       /\ tables' = tables
       /\ last'.op = "bind_interdomain_evtchn_to_irq"
            => ~fatal' /\ last'.ret = last'.hv
       /\ last'.op = "xen_allocate_pirq"
            => ~fatal' /\ last'.ret = -ENOSPC
       /\ last'.op \in {"bind_virq_to_irq", "bind_ipi_to_irq"}
            => fatal']_vars

\* C8: a bind hypercall failed with bindings installed.
C8_Witness ==
  /\ BindHypercallFailed(last)
  /\ last.op = "xen_allocate_pirq"
  /\ last.ret = -ENOSPC
  /\ \E irq \in Irqs : irq_info[irq].type # "IRQT_UNBOUND"

\* C9: when request_irq fails in a bind_*_to_irqhandler, the error is
\* returned as it is, and the irq the constructor gave is Unbound and named
\* by no entry of evtchn_to_irq, virq_to_irq or ipi_to_irq.
C9_FailedHandlerUnbinds ==
  [][(/\ last'.op \in {"bind_evtchn_to_irqhandler",
                       "bind_interdomain_evtchn_to_irqhandler",
                       "bind_virq_to_irqhandler", "bind_ipi_to_irqhandler"}
      /\ last'.rq # 0
      /\ last'.irq # -1
      /\ ~fatal') =>
       /\ last'.ret = last'.rq
       /\ \A irq \in Irqs :
            last'.irq = irq => /\ irq_info'[irq].type = "IRQT_UNBOUND"
                               /\ NoEntryNames(irq)']_vars

(* ------------------------------------------------------------------ *)
(* Properties of the upcall.                                           *)
(* ------------------------------------------------------------------ *)
\* The ports of S in increasing order.
RECURSIVE Increasing(_)
Increasing(S) ==
  IF S = {} THEN <<>>
  ELSE LET low == CHOOSE p \in S : \A q \in S : p <= q
       IN  <<low>> \o Increasing(S \ {low})

\* The ports that were pending, unmasked, in the cpu's mask and in a word
\* whose selector bit was set when the pass began.
EntryActive ==
  {p \in Ports : /\ p \in entry.evtchn_pending
                 /\ p \notin entry.evtchn_mask
                 /\ p \in entry.cpu_evtchn_mask
                 /\ (p \div BITS_PER_LONG) \in entry.evtchn_pending_sel}

\* The position the cursor had when the pass began, as a port number.
EntryCursor ==
  (upcall.start_word_idx * BITS_PER_LONG) + upcall.start_bit_idx

\* C10: when a pass on bitmaps nobody else changes is over, the ports it
\* processed (masked, cleared and handed to their irq) are the ports that
\* were pending, unmasked, in this cpu's mask and in a word with its selector
\* bit set, each once, those from the entry cursor upwards first and then
\* those below it, both in increasing order; and the cursor is just behind
\* the last of them (unmoved if there was none).
C10_ScanOrder ==
  upcall.pc = "exit" =>
    /\ dispatched = Increasing({p \in EntryActive : p >= EntryCursor})
                      \o Increasing({p \in EntryActive : p < EntryCursor})
    /\ LET cpu == upcall.cpu
           n == Len(dispatched)
           nb == ((dispatched[n] % BITS_PER_LONG) + 1) % BITS_PER_LONG
           w == dispatched[n] \div BITS_PER_LONG
       IN  IF n = 0
           THEN /\ current_word_idx[cpu] = upcall.start_word_idx
                /\ current_bit_idx[cpu] = upcall.start_bit_idx
           ELSE /\ current_bit_idx[cpu] = nb
                /\ current_word_idx[cpu] =
                     IF nb # 0 THEN w ELSE (w + 1) % BITS_PER_LONG

\* C10: a pass that began in the middle of a word is over; it processed
\* ports from the cursor upwards, wrapped, and ended with a port of the
\* starting word below the cursor.
C10_Witness ==
  /\ upcall.pc = "exit"
  /\ upcall.start_bit_idx # 0
  /\ Len(dispatched) >= 3
  /\ dispatched[1] >= EntryCursor
  /\ dispatched[Len(dispatched)] < EntryCursor
  /\ dispatched[Len(dispatched)] \div BITS_PER_LONG = upcall.start_word_idx

PercpuIrqs ==
  {virq_to_irq[c][v] : c \in CPUs, v \in Virqs}
    \cup {ipi_to_irq[c][i] : c \in CPUs, i \in Ipis}

\* The irq has a port of the new port space, evtchn_to_irq gives the irq for
\* it, and the port is in cpu's mask only.
Rebound(irq, cpu) ==
  LET p == irq_info[irq].evtchn
  IN  /\ p # 0
      /\ p \in hv_ports
      /\ evtchn_to_irq[p] = irq
      /\ irq_info[irq].cpu = cpu
      /\ MaskCpus(p) = {cpu}

\* C15: after xen_irq_resume() a port is mapped only if the hypervisor handed
\* it out again, to an irq of the per-cpu tables; every virq_to_irq and
\* ipi_to_irq entry is as before, and the irq of an entry that is not -1 is
\* of its kind with its virq or ipi number, was bound again by
\* EVTCHNOP_bind_virq or EVTCHNOP_bind_ipi and has the new port, which
\* evtchn_to_irq maps back to it and which is in the entry's cpu's mask only;
\* every inter-domain and Pirq irq keeps its kind and payload with port 0.
C15_ResumeRebinds ==
  [][(last'.op = "xen_irq_resume" /\ ~fatal') =>
       /\ \A p \in Ports :
            evtchn_to_irq'[p] # -1 =>
              /\ p \in hv_ports'
              /\ evtchn_to_irq'[p] \in PercpuIrqs
              /\ irq_info'[evtchn_to_irq'[p]].evtchn = p
       /\ virq_to_irq' = virq_to_irq
       /\ ipi_to_irq' = ipi_to_irq
       /\ \A cpu \in CPUs, v \in Virqs, irq \in Irqs :
            virq_to_irq[cpu][v] = irq =>
              /\ irq_info'[irq].type = "IRQT_VIRQ"
              /\ irq_info'[irq].virq = v
              /\ Issued(hc', <<"EVTCHNOP_bind_virq", v, cpu>>)
              /\ Rebound(irq, cpu)'
       /\ \A cpu \in CPUs, i \in Ipis, irq \in Irqs :
            ipi_to_irq[cpu][i] = irq =>
              /\ irq_info'[irq].type = "IRQT_IPI"
              /\ irq_info'[irq].ipi = i
              /\ Issued(hc', <<"EVTCHNOP_bind_ipi", cpu>>)
              /\ Rebound(irq, cpu)'
       /\ \A irq \in Irqs :
            irq_info[irq].type \in {"IRQT_EVTCHN", "IRQT_PIRQ"} =>
              irq_info'[irq] = [irq_info[irq] EXCEPT !.evtchn = 0]]_vars


\* C16: after xen_irq_resume() every port is masked, except ports that are
\* then the port of an irq with a registered IRQF_NO_SUSPEND handler (the
\* irqs here are all enabled); port 0 in particular is masked.
C16_ResumeLeavesMasked ==
  (Completed /\ last.op = "xen_irq_resume") =>
    \A p \in Ports :
      p \notin evtchn_mask =>
        /\ p # 0
        /\ \E irq \in Irqs : /\ irq_info[irq].evtchn = p
                              /\ irq_action[irq] = "no_suspend"

\* The hypercalls that bind a port.
BindCalls ==
  {"EVTCHNOP_bind_interdomain", "EVTCHNOP_bind_virq", "EVTCHNOP_bind_ipi",
   "EVTCHNOP_bind_pirq", "EVTCHNOP_bind_vcpu"}

\* C17 (P7): xen_irq_resume() on the state xen_init_IRQ() left, with nothing
\* bound, leaves evtchn_to_irq, irq_info, virq_to_irq, ipi_to_irq, the cpu
\* masks and the shared mask bitmap as they were and issues no bind
\* hypercall.
C17_ResumeOnFreshIsNoop ==
  [][(/\ last.op = "xen_init_IRQ"
      /\ last'.op = "xen_irq_resume"
      /\ ~fatal') =>
       /\ tables' = tables
       /\ evtchn_mask' = evtchn_mask
       /\ \A k \in DOMAIN hc' : hc'[k][1] \notin BindCalls]_vars

\* C17: resume was the first operation after xen_init_IRQ().
C17_Witness ==
  /\ Completed
  /\ last.op = "xen_irq_resume"
  /\ nops = 1

\* The operation's log holds an EVTCHNOP_bind_pirq.
BindPirqIssued(log) == \E k \in DOMAIN log : log[k][1] = "EVTCHNOP_bind_pirq"

\* C18: xen_allocate_pirq issues no EVTCHNOP_bind_pirq and gives the irq it
\* sets up port 0 (an irq it finds for the gsi is left as it is);
\* startup_pirq issues EVTCHNOP_bind_pirq exactly when the irq has no port;
\* and when EVTCHNOP_bind_pirq fails startup_pirq returns 0, the irq's port
\* stays 0 and evtchn_to_irq, the cpu masks and pirq_needs_eoi are as before.
C18_PirqBindsLazily ==
  [][\A irq \in Irqs :
       /\ (last'.op = "xen_allocate_pirq" /\ last'.ret = irq /\ ~fatal') =>
            /\ ~BindPirqIssued(hc')
            /\ \/ irq_info'[irq].evtchn = 0
               \/ irq_info' = irq_info
       /\ (last'.op = "startup_pirq" /\ last'.irq = irq /\ ~fatal') =>
            /\ BindPirqIssued(hc') <=> (irq_info[irq].evtchn = 0)
            /\ (BindPirqIssued(hc') /\ last'.hv < 0) =>
                 /\ last'.ret = 0
                 /\ irq_info'[irq].evtchn = 0
                 /\ evtchn_to_irq' = evtchn_to_irq
                 /\ cpu_evtchn_mask' = cpu_evtchn_mask
                 /\ pirq_needs_eoi_bits' = pirq_needs_eoi_bits]_vars

\* C18: EVTCHNOP_bind_pirq failed in startup_pirq.
C18_Witness ==
  /\ Completed
  /\ last.op = "startup_pirq"
  /\ last.hv < 0
  /\ BindPirqIssued(hc)
  /\ last.irq \in Irqs
  /\ irq_info[last.irq].type = "IRQT_PIRQ"
  /\ irq_info[last.irq].evtchn = 0

(* ------------------------------------------------------------------ *)
(* Properties of the upcall while events keep arriving.                *)
(* ------------------------------------------------------------------ *)
\* The ports the pass has processed so far.
Dispatched == {dispatched[k] : k \in DOMAIN dispatched}

\* C11 (P5): whatever the cursor and whatever events keep arriving, a port
\* that is pending, unmasked, in the cpu's mask and in a word with its
\* selector bit set when a pass of the upcall begins on that cpu has been
\* processed when that pass is over: it waits for one upcall, and so never
\* for more than two.
C11_PassServesDeliverable ==
  upcall.pc = "exit" => EntryActive \subseteq Dispatched

\* C11: a pass that began in the middle of a word is over; a port below the
\* cursor in the starting word was deliverable when it began, and a port was
\* processed twice because its event arrived again.
C11_Witness ==
  /\ upcall.pc = "exit"
  /\ upcall.start_bit_idx # 0
  /\ \E p \in EntryActive :
       /\ p \div BITS_PER_LONG = upcall.start_word_idx
       /\ p < EntryCursor
  /\ Len(dispatched) > Cardinality(Dispatched)

\* C12 (P6): when the pass processes a port that evtchn_to_irq maps to no
\* irq, the port becomes masked and not pending and nothing else changes: no
\* table, no descriptor, no selector, no upcall flag, and the step issues no
\* hypercall (its hypercall log is empty); and the
\* port was not masked when it was processed, so it is not processed again
\* while it stays masked.
C12_UnboundPortDropped ==
  [][\A p \in Ports :
       (dispatched' = Append(dispatched, p) /\ evtchn_to_irq[p] = -1) =>
         /\ p \notin evtchn_mask
         /\ evtchn_mask' = evtchn_mask \cup {p}
         /\ evtchn_pending' = evtchn_pending \ {p}
         /\ tables' = tables
         /\ irq_chip' = irq_chip
         /\ irq_action' = irq_action
         /\ evtchn_pending_sel' = evtchn_pending_sel
         /\ evtchn_upcall_pending' = evtchn_upcall_pending
         /\ hc' = << >>]_vars

\* C12: a pass is over that processed a port without an irq once; the port
\* is masked, and its event has arrived again since.
C12_Witness ==
  /\ upcall.pc = "exit"
  /\ \E p \in Ports :
       /\ evtchn_to_irq[p] = -1
       /\ Cardinality({k \in DOMAIN dispatched : dispatched[k] = p}) = 1
       /\ p \in evtchn_mask
       /\ p \in evtchn_pending

\* unmask_irq ran on the cpu the irq's port notifies, and the port was masked
\* and pending.
UnmaskedAtHome(irq, p, cpu) ==
  /\ last'.op = "unmask_irq"
  /\ last'.irq = irq
  /\ last'.cpu = cpu
  /\ irq_info[irq].evtchn = p
  /\ evtchn_to_irq[p] = irq
  /\ irq_info[irq].cpu = cpu
  /\ p \in evtchn_mask
  /\ p \in evtchn_pending

\* C13 as stated: unmask on the port's own cpu of a bound port that is masked
\* and pending clears the mask bit, sets the selector bit of the port's word
\* and the cpu's upcall flag, and issues no hypercall, whatever the selector
\* and the upcall flag were.
C13_UnmaskRaisesUpcall ==
  [][\A irq \in Irqs, p \in Ports \ {0}, cpu \in CPUs :
       UnmaskedAtHome(irq, p, cpu) =>
         /\ p \notin evtchn_mask'
         /\ (p \div BITS_PER_LONG) \in evtchn_pending_sel'[cpu]
         /\ evtchn_upcall_pending'[cpu]
         /\ hc' = <<>>]_vars

\* C13 as the code has it: the mask bit is cleared, the selector bit is set
\* and no hypercall is issued; the upcall flag is set if the selector bit was
\* clear, and left as it was if the selector bit was already set.
C13_UnmaskSetsSelector ==
  [][\A irq \in Irqs, p \in Ports \ {0}, cpu \in CPUs :
       UnmaskedAtHome(irq, p, cpu) =>
         LET w == p \div BITS_PER_LONG
         IN  /\ evtchn_mask' = evtchn_mask \ {p}
             /\ evtchn_pending_sel' =
                  [evtchn_pending_sel EXCEPT ![cpu] = @ \cup {w}]
             /\ evtchn_upcall_pending' =
                  [evtchn_upcall_pending EXCEPT
                     ![cpu] = @ \/ (w \notin evtchn_pending_sel[cpu])]
             /\ hc' = <<>>]_vars

\* C13: unmask_irq has run on the port's own cpu while that cpu's pass runs;
\* the port is unmasked and pending, its selector bit is set and the upcall
\* flag is clear.
C13_Witness ==
  /\ last.op = "unmask_irq"
  /\ last.evtchn # 0
  /\ evtchn_to_irq[last.evtchn] = last.irq
  /\ irq_info[last.irq].cpu = last.cpu
  /\ upcall.pc \in {"for", "bit", "next"}
  /\ upcall.cpu = last.cpu
  /\ last.evtchn \notin evtchn_mask
  /\ last.evtchn \in evtchn_pending
  /\ (last.evtchn \div BITS_PER_LONG) \in evtchn_pending_sel[last.cpu]
  /\ ~evtchn_upcall_pending[last.cpu]

(* ------------------------------------------------------------------ *)
(* Properties of the writers' statements and of the lock.              *)
(* ------------------------------------------------------------------ *)
\* C19: at every statement of a writer, a lookup on another cpu that takes no
\* lock and has read evtchn_to_irq[port] = irq, irq not -1, and then
\* irq_info[irq], has found an irq_info that holds this port and is not
\* unbound.
C19_ReaderSeesBinding ==
  reader.pc = "done" =>
    /\ reader.info.evtchn = reader.port
    /\ reader.info.type # "IRQT_UNBOUND"

\* C20: every statement that changes evtchn_to_irq, irq_info, virq_to_irq,
\* ipi_to_irq or a cpu's port mask is run by a writer whose cpu holds
\* irq_mapping_update_lock.
C20_WritesUnderLock ==
  [][tables' # tables =>
       /\ ~WriterIdle
       /\ irq_mapping_update_lock = writer.cpu]_vars

(* ------------------------------------------------------------------ *)
(* Properties of the allocator, the chips and the masks.               *)
(* ------------------------------------------------------------------ *)
\* Every irq of the dynamic range, nr_hw_irqs <= irq < nr_irqs, is bound.
Exhausted == \A irq \in Irqs : irq >= get_nr_hw_irqs =>
                                 irq_info[irq].type # "IRQT_UNBOUND"

\* The operation l finds no binding to return and calls find_unbound_irq.
NeedsIrq(l) ==
  \/ /\ l.op \in {"bind_evtchn_to_irq", "bind_evtchn_to_irqhandler"}
     /\ evtchn_to_irq[l.evtchn] = -1
  \/ /\ l.op \in {"bind_interdomain_evtchn_to_irq",
                   "bind_interdomain_evtchn_to_irqhandler"}
     /\ l.hv > 0
     /\ evtchn_to_irq[l.hv] = -1
  \/ /\ l.op \in {"bind_virq_to_irq", "bind_virq_to_irqhandler"}
     /\ virq_to_irq[l.cpu][l.idx] = -1
  \/ /\ l.op \in {"bind_ipi_to_irq", "bind_ipi_to_irqhandler"}
     /\ ipi_to_irq[l.cpu][l.idx] = -1
  \/ /\ l.op = "xen_allocate_pirq"
     /\ xen_initial_domain
     /\ ~identity_mapped_irq(l.idx)
     /\ find_irq_by_gsi(Cur, l.idx) = -1

\* C21: when every irq of the dynamic range is bound, an operation that
\* needs a new irq from find_unbound_irq ends in panic(): it returns no irq
\* at all, bound, hardware or without a binding.
C21_ExhaustedBindIsFatal ==
  [][(Exhausted /\ NeedsIrq(last')) => fatal']_vars

\* C21: every irq of the dynamic range is bound and a bind that found no
\* binding has stopped the guest.
C21_Witness ==
  /\ Exhausted
  /\ fatal
  /\ last.op \in {"bind_evtchn_to_irq", "bind_virq_to_irq", "bind_ipi_to_irq"}

\* C22: within one pass no port is dispatched twice: the second visit of the
\* starting word dispatches only ports below start_bit_idx, also when a port
\* at or above it, dispatched on the first visit, has been unmasked by its
\* handler and raised again since.
C22_NoPortTwiceInPass ==
  \A i, j \in 1 .. Len(dispatched) :
     i # j => dispatched[i] # dispatched[j]

\* The position behind port p in the circular port space, as (word, bit).
Behind(p) ==
  LET n == (p + 1) % NR_EVENT_CHANNELS
  IN  <<n \div BITS_PER_LONG, n % BITS_PER_LONG>>

\* C23 (I5): the step that dispatches port p leaves the cursor of the
\* scanning cpu at the position behind p, wrapping to (0, 0) behind the last
\* port, and the cursors of the other cpus as they were; no other step
\* changes a cursor.
C23_CursorBehindDispatched ==
  [][/\ \A p \in Ports :
          dispatched' = Append(dispatched, p) =>
            /\ <<current_word_idx'[upcall.cpu],
                 current_bit_idx'[upcall.cpu]>> = Behind(p)
            /\ \A c \in CPUs \ {upcall.cpu} :
                 /\ current_word_idx'[c] = current_word_idx[c]
                 /\ current_bit_idx'[c] = current_bit_idx[c]
     /\ (\A p \in Ports : dispatched' # Append(dispatched, p)) =>
          /\ current_word_idx' = current_word_idx
          /\ current_bit_idx' = current_bit_idx]_vars

\* C23: the last port of the bitmap has just been dispatched and the cursor
\* has wrapped to (0, 0).
C23_Witness ==
  /\ upcall.pc = "next"
  /\ dispatched # << >>
  /\ dispatched[Len(dispatched)] = NR_EVENT_CHANNELS - 1
  /\ current_word_idx[upcall.cpu] = 0
  /\ current_bit_idx[upcall.cpu] = 0

\* C24: an upcall that enters on a cpu whose xed_nesting_count is not 0
\* counts itself and leaves: it does not exchange the selector and dispatches
\* no port.  The invocation it interrupted does not return while the count
\* is above 1 but goes round its do loop, with the count back at 0, so that
\* another pass follows; and whenever no upcall runs every count is 0.
C24_NestedEntryFolds ==
  [][/\ \A c \in CPUs :
          (xed_nesting_count[c] # 0 /\
           xed_nesting_count'[c] = xed_nesting_count[c] + 1) =>
            /\ evtchn_pending_sel' = evtchn_pending_sel
            /\ evtchn_pending' = evtchn_pending
            /\ evtchn_mask' = evtchn_mask
            /\ dispatched' = dispatched
            /\ upcall' = upcall
     /\ (upcall.pc = "exit" /\ xed_nesting_count[upcall.cpu] > 1) =>
          upcall'.pc \in {"exit", "do"}
     /\ upcall'.pc = "do" => xed_nesting_count'[upcall'.cpu] = 0
     /\ upcall'.pc = "idle" => \A c \in CPUs : xed_nesting_count'[c] = 0]_vars

\* C24: an upcall nested during the pass that is over and cleared the upcall
\* flag; the outer invocation goes round again for the count alone.
C24_Witness ==
  /\ upcall.pc = "do"
  /\ ~evtchn_upcall_pending[upcall.cpu]
  /\ xed_nesting_count[upcall.cpu] = 0

\* The port the inner loop of the running pass is at.
FramePort == (upcall.word_idx * BITS_PER_LONG) + upcall.bit_idx

\* C25: a word is sampled as the ports that are pending, not masked and in
\* the mask of the scanning cpu; the inner loop takes its ports from that
\* sample only; for each it first sets the mask bit and leaves the pending
\* bit, then clears the pending bit and leaves the mask bit, and only then
\* hands the port to its irq; and no pending bit but that of the port being
\* dispatched is ever cleared.
C25_MaskThenClearOfSampled ==
  [][/\ (upcall.pc = "for" /\ upcall'.pc = "bit") =>
          upcall'.pending_bits =
            {b \in Bits :
               LET p == (upcall'.word_idx * BITS_PER_LONG) + b
               IN  /\ p \in evtchn_pending
                   /\ p \notin evtchn_mask
                   /\ p \in cpu_evtchn_mask[upcall.cpu]}
     /\ (upcall'.pc = "clear" /\ upcall.pc # "clear") => upcall.pc = "bit"
     /\ (upcall'.pc = "handle" /\ upcall.pc # "handle") => upcall.pc = "clear"
     /\ (upcall.pc = "bit" /\ upcall'.pc = "clear") =>
          /\ upcall'.bit_idx \in upcall.pending_bits
          /\ upcall'.pending_bits = upcall.pending_bits
          /\ evtchn_mask' =
               evtchn_mask \cup
                 {(upcall'.word_idx * BITS_PER_LONG) + upcall'.bit_idx}
          /\ evtchn_pending' = evtchn_pending
          /\ dispatched' = dispatched
     /\ (upcall.pc = "clear" /\ upcall'.pc = "handle") =>
          /\ evtchn_pending' = evtchn_pending \ {FramePort}
          /\ evtchn_mask' = evtchn_mask
          /\ dispatched' = dispatched
     /\ Len(dispatched') > Len(dispatched) =>
          /\ upcall.pc = "handle"
          /\ upcall.bit_idx \in upcall.pending_bits
          /\ dispatched' = Append(dispatched, FramePort)
     /\ \A p \in evtchn_pending \ evtchn_pending' :
          /\ upcall.pc = "clear"
          /\ p = FramePort
          /\ upcall.bit_idx \in upcall.pending_bits]_vars

\* C25: a port of the word was handed to its irq while another port of the
\* same word, which notifies another cpu, is pending and was left alone.
C25_Witness ==
  /\ upcall.pc \in {"bit", "next"}
  /\ dispatched # <<>>
  /\ dispatched[Len(dispatched)] \div BITS_PER_LONG = upcall.word_idx
  /\ \E q \in evtchn_pending :
       /\ q \div BITS_PER_LONG = upcall.word_idx
       /\ q \notin cpu_evtchn_mask[upcall.cpu]

\* The unmask hypercalls of the last step.
UnmaskCalls == {i \in 1 .. Len(hc) : hc[i][1] = "EVTCHNOP_unmask"}

\* The irq whose pirq_eoi the last step ran, at its end or as a whole, or -1.
EoiIrq(l, info, dead) ==
  IF l.op \in {"ack_pirq", "startup_pirq"} /\ ~dead /\ l.irq # -1
  THEN IF info[l.irq].evtchn # 0 THEN l.irq ELSE -1
  ELSE -1

\* C26 as it is stated: pirq_eoi unmasks the port exactly when the bit of the
\* gsi in pirq_needs_eoi_bits is clear or pirq_eoi_does_unmask is true.
C26_UnmaskIfEoiUnmasks ==
  [][LET irq == EoiIrq(last', irq_info', fatal')
     IN  (nops' # nops /\ irq # -1) =>
           LET port == irq_info'[irq].evtchn
               need == irq_info'[irq].gsi \in pirq_needs_eoi_bits'
           IN  IF ~need \/ pirq_eoi_does_unmask
               THEN port \notin evtchn_mask'
               ELSE /\ port \in evtchn_mask => port \in evtchn_mask'
                    /\ UnmaskCalls' = {}]_vars

\* C26, amended: pirq_eoi unmasks the port exactly when the bit of the gsi in
\* pirq_needs_eoi_bits is clear or pirq_eoi_does_unmask is false; when the
\* bit is set and the hypervisor unmasks at the eoi, it leaves the mask bit
\* as it is and issues no EVTCHNOP_unmask.
C26_UnmaskUnlessEoiUnmasks ==
  [][LET irq == EoiIrq(last', irq_info', fatal')
     IN  (nops' # nops /\ irq # -1) =>
           LET port == irq_info'[irq].evtchn
               need == irq_info'[irq].gsi \in pirq_needs_eoi_bits'
           IN  IF ~need \/ ~pirq_eoi_does_unmask
               THEN port \notin evtchn_mask'
               ELSE /\ port \in evtchn_mask => port \in evtchn_mask'
                    /\ UnmaskCalls' = {}]_vars

\* C26: pirq_eoi ran for an irq whose bit is set under a hypervisor that
\* unmasks at the eoi: the eoi was sent and the port is still masked.
C26_Witness ==
  /\ EoiIrq(last, irq_info, fatal) # -1
  /\ pirq_eoi_does_unmask
  /\ irq_info[last.irq].gsi \in pirq_needs_eoi_bits
  /\ irq_info[last.irq].evtchn \in evtchn_mask
  /\ \E i \in 1 .. Len(hc) : hc[i][1] = "PHYSDEVOP_eoi"

\* C27: retrigger_irq on an irq with a port leaves the port pending and
\* returns 1; a port that was masked stays masked, and no selector, no upcall
\* flag is changed and no hypercall made; a port that was not masked is not
\* masked afterwards, and when the call ran on the cpu the port notifies the
\* selector bit of the port's word is set there.  On an irq with port 0 it
\* returns 0 and changes nothing.
C27_RetriggerForcesEdge ==
  [][(nops' # nops /\ last'.op = "retrigger_irq") =>
       LET p == last'.evtchn
           i == evtchn_to_irq[p]
           home == IF i # -1 THEN irq_info[i].cpu ELSE 0
       IN  /\ UNCHANGED tables
           /\ IF p # 0
              THEN /\ p \in evtchn_pending'
                   /\ evtchn_pending' \ {p} = evtchn_pending \ {p}
                   /\ evtchn_mask' \ {p} = evtchn_mask \ {p}
                   /\ last'.ret = 1
                   /\ p \in evtchn_mask =>
                        /\ p \in evtchn_mask'
                        /\ evtchn_pending_sel' = evtchn_pending_sel
                        /\ evtchn_upcall_pending' = evtchn_upcall_pending
                        /\ hc' = << >>
                   /\ p \notin evtchn_mask =>
                        /\ p \notin evtchn_mask'
                        /\ last'.cpu = home =>
                             (p \div BITS_PER_LONG) \in
                               evtchn_pending_sel'[home]
              ELSE /\ last'.ret = 0
                   /\ evtchn_pending' = evtchn_pending
                   /\ evtchn_mask' = evtchn_mask
                   /\ evtchn_pending_sel' = evtchn_pending_sel
                   /\ evtchn_upcall_pending' = evtchn_upcall_pending
                   /\ hc' = << >>]_vars

\* C27: retrigger_irq ran on an irq whose port was masked: the port is
\* pending and masked, and no selector bit is set for it.
C27_Witness ==
  /\ last.op = "retrigger_irq"
  /\ last.evtchn # 0
  /\ last.ret = 1
  /\ last.evtchn \in evtchn_pending
  /\ last.evtchn \in evtchn_mask
  /\ \A c \in CPUs : evtchn_pending_sel[c] = {}

\* C28 as it is stated: on every cpu whose xed_nesting_count is 0, a selector
\* that is not empty has the upcall flag set.
C28_SelectorHasUpcallAtCountZero ==
  \A c \in CPUs :
    (xed_nesting_count[c] = 0 /\ evtchn_pending_sel[c] # {}) =>
      evtchn_upcall_pending[c]

\* C28, amended: on every cpu on which no upcall runs, a selector that is not
\* empty has the upcall flag set, whatever the hypervisor raised, whichever
\* upcalls nested and whichever irqs were unmasked or resent.  (An upcall
\* that goes round its do loop has put xed_nesting_count back to 0 and still
\* runs: the selector bits a nested entry left are taken by its next pass.)
C28_NoLostWakeup ==
  \A c \in CPUs :
    ((upcall.pc = "idle" \/ upcall.cpu # c) /\ evtchn_pending_sel[c] # {}) =>
      evtchn_upcall_pending[c]

\* C28: a pass has run and returned, an irq was resent on a cpu after it, and
\* the selector of that cpu is not empty with its upcall due.
C28_Witness ==
  /\ upcall.pc = "idle"
  /\ dispatched # <<>>
  /\ last.op = "retrigger_irq"
  /\ evtchn_pending_sel[last.cpu] # {}
  /\ evtchn_upcall_pending[last.cpu]
  /\ xed_nesting_count[last.cpu] = 0

\* C29: after every operation, every port that evtchn_to_irq maps to an irq
\* is in the mask of the cpu recorded in that irq's irq_info, and in the mask
\* of no other cpu.
C29_BoundPortInOwnersMask ==
  Completed =>
    \A p \in Ports :
      evtchn_to_irq[p] # -1 =>
        MaskCpus(p) = {irq_info[evtchn_to_irq[p]].cpu}

\* C30: no irq is shared by two bindings: evtchn_to_irq gives no irq for two
\* ports, the entries of virq_to_irq and ipi_to_irq name different irqs, and
\* the irq an operation gets from find_unbound_irq was of type IRQT_UNBOUND
\* and in no entry of evtchn_to_irq when the operation began.
C30_NoIrqSharedByTwoBindings ==
  [][/\ Completed' =>
          /\ \A p, q \in Ports :
               (evtchn_to_irq'[p] # -1 /\
                evtchn_to_irq'[p] = evtchn_to_irq'[q]) => p = q
          /\ \A c1, c2 \in CPUs :
               /\ \A v1, v2 \in Virqs :
                    (virq_to_irq'[c1][v1] # -1 /\
                     virq_to_irq'[c1][v1] = virq_to_irq'[c2][v2]) =>
                       (c1 = c2 /\ v1 = v2)
               /\ \A i1, i2 \in Ipis :
                    (ipi_to_irq'[c1][i1] # -1 /\
                     ipi_to_irq'[c1][i1] = ipi_to_irq'[c2][i2]) =>
                       (c1 = c2 /\ i1 = i2)
               /\ \A v \in Virqs, i \in Ipis :
                    virq_to_irq'[c1][v] # -1 =>
                      virq_to_irq'[c1][v] # ipi_to_irq'[c2][i]
     /\ (nops' # nops /\ NeedsIrq(last') /\ ~fatal' /\ last'.ret >= 0) =>
          /\ irq_info[last'.ret].type = "IRQT_UNBOUND"
          /\ \A p \in Ports : evtchn_to_irq[p] # last'.ret]_vars

\* C31: when no pirq exists for the gsi, the irq xen_allocate_pirq makes a
\* pirq was of type IRQT_UNBOUND before the call, in the privileged domain
\* and in any other; it is the gsi itself for a gsi below nr_hw_irqs and the
\* irq find_unbound_irq gives for any other gsi; and the irq_info of every
\* other irq is as it was.
C31_AllocatePirqTakesUnboundIrq ==
  [][(/\ nops' # nops
      /\ last'.op = "xen_allocate_pirq"
      /\ find_irq_by_gsi(Cur, last'.idx) = -1
      /\ ~fatal'
      /\ last'.ret >= 0) =>
       LET gsi == last'.idx
           irq == last'.ret
       IN  /\ irq_info[irq].type = "IRQT_UNBOUND"
           /\ IF gsi < get_nr_hw_irqs
              THEN irq = gsi
              ELSE irq = find_unbound_irq(Cur).ret
           /\ \A other \in Irqs \ {irq} : irq_info'[other] = irq_info[other]]_vars

\* C32: a bind_evtchn_to_irqhandler, bind_virq_to_irqhandler or
\* bind_ipi_to_irqhandler in which request_irq fails returns that error and
\* leaves irq_info, evtchn_to_irq, the cpu masks, virq_to_irq and ipi_to_irq
\* as they were before the call, and closes no port that was open before it.
C32_FailedHandlerBindRestores ==
  [][(/\ nops' # nops
      /\ last'.op \in {"bind_evtchn_to_irqhandler", "bind_virq_to_irqhandler",
                       "bind_ipi_to_irqhandler"}
      /\ last'.rq < 0
      /\ last'.ret = last'.rq
      /\ ~fatal') =>
       /\ UNCHANGED tables
       /\ hv_ports \subseteq hv_ports']_vars

\* C33: a pass ends.  It starts with the exchanged selector as its words and
\* i = 0; it visits only words that are left; a word leaves the words that
\* are left only at the end of its visit, and does so unless the visit is the
\* first one of the starting word; the for loop is left with no word left
\* after at most one turn for each selected word, one more for the starting
\* word and one for the wrap to word 0; and every pass that has begun gets
\* there.
C33_PassTerminates ==
  /\ [][/\ (upcall.pc \in {"idle", "do"} /\ upcall'.pc = "for") =>
              /\ upcall'.pending_words = evtchn_pending_sel[upcall'.cpu]
              /\ upcall'.i = 0
        /\ (upcall.pc = "for" /\ upcall'.pc = "bit") =>
              upcall'.word_idx \in upcall.pending_words
        /\ (upcall.pc \in {"for", "bit", "next"} /\
            upcall'.pending_words # upcall.pending_words) =>
              /\ upcall.pc = "next"
              /\ upcall'.pending_words = upcall.pending_words \ {upcall.word_idx}
        /\ upcall.pc = "next" =>
              (upcall'.pending_words = upcall.pending_words
                 <=> (upcall.word_idx = upcall.start_word_idx /\ upcall.i = 0))
       ]_vars
  /\ [](upcall.pc = "exit" =>
          /\ upcall.pending_words = {}
          /\ upcall.i <= Cardinality(entry.evtchn_pending_sel) + 2)
  /\ (upcall.pc = "for") ~> (upcall.pc = "exit")

\* C33: a pass whose starting word was selected has ended after visiting it
\* twice, with a wrap to word 0 in between.
C33_Witness ==
  /\ upcall.pc = "exit"
  /\ upcall.start_word_idx \in entry.evtchn_pending_sel
  /\ upcall.i = Cardinality(entry.evtchn_pending_sel) + 2

====
